---- MODULE Spec2Model ----
(***************************************************************************)
(* Alarm timers (kernel/time/alarmtimer.c): per-base timerqueue of alarms, *)
(* one hrtimer per base that dispatches them, alarm_start / alarm_cancel,  *)
(* and the suspend hook that programs the RTC wakeup.                      *)
(***************************************************************************)
EXTENDS Integers, Sequences, FiniteSets, TLC

\* ------------------------------------------------------------------ bounds
\* largest value a base clock reaches
MaxTime == 2
\* largest period handed to alarm_start
MaxPeriod == 1
\* largest base-clock value in the periodic catch-up scenario
MaxCatchupTime == 23
\* largest value read from the RTC by the suspend hook
MaxRtc == 1
\* largest absolute expiry handed to alarmtimer_freezerset
MaxFreezerExp == 1
\* largest tv_nsec handed to alarm_timer_nsleep
MaxSleep == 1
\* largest tv_nsec of an it_value handed to alarm_timer_set
MaxValue == 1
\* most wake-ups of a sleeping task by others than its alarm and signals
MaxWakes == 1

\* ------------------------------------------------------------- vocabulary
ALARM_REALTIME == "REALTIME"
ALARM_BOOTTIME == "BOOTTIME"
\* alarm_bases[ALARM_NUMTYPE], indexed by enum alarmtimer_type
Types == <<ALARM_REALTIME, ALARM_BOOTTIME>>
TypeSet == {Types[i] : i \in 1..Len(Types)}
Alarms == {"a1", "a2", "a3", "n1"}
\* the on-stack alarm of a task in alarm_timer_nsleep
SleepAlarms == {"n1"}
NULL == "NULL"
HRTIMER_NORESTART == "NORESTART"
HRTIMER_RESTART == "RESTART"
\* clockid_t values: the two alarm clocks and one that is neither
CLOCK_REALTIME_ALARM == "CLOCK_REALTIME_ALARM"
CLOCK_BOOTTIME_ALARM == "CLOCK_BOOTTIME_ALARM"
CLOCK_MONOTONIC == "CLOCK_MONOTONIC"
ClockIds == {CLOCK_REALTIME_ALARM, CLOCK_BOOTTIME_ALARM, CLOCK_MONOTONIC}
\* the (enum alarmtimer_type)-1 that clock2alarm returns for other clocks
NoType == "-1"
TIMER_ABSTIME == "TIMER_ABSTIME"

\* the type each alarm was given by alarm_init
InitType(a) == IF a = "a3" THEN ALARM_BOOTTIME ELSE ALARM_REALTIME

VARIABLES
    clock,          \* base->gettime() of each base
    lock,           \* base->lock: "free" or who holds it
    timerqueue,     \* base->timerqueue, nodes in expiry order, head first
    hrtimer,        \* base->timer: [enqueued, callback, expires]
    alarm,          \* every struct alarm: [expires, period, function, type, enabled]
    fired,          \* alarmtimer_fired's position and locals, per base
    freezer_delta,  \* the freezer_delta global
    rtcdev,         \* the selected rtc device (TRUE once one is selected)
    rtctimer,       \* the rtc wakeup timer: [armed, expires]
    susp,           \* alarmtimer_suspend's position and locals
    hist,           \* history of each alarm since its last alarm_start
    chist,          \* what the last alarm_cancel of each alarm found
    bhist,          \* history of each base's firings
    dhist,          \* history of each base's last drain
    shist,          \* history of the last run of the suspend hook
    fhist,          \* history of the freezer deltas published
    nhist,          \* history of the task's calls of alarm_timer_nsleep
    thist,          \* history of each base's running drain
    data,           \* alarm->data of the alarms of sleeping tasks
    task,           \* the task in alarm_timer_nsleep: position, locals, state
    facade          \* the last call of a posix clock interface and its result

vars == <<clock, lock, timerqueue, hrtimer, alarm, fired, freezer_delta,
          rtcdev, rtctimer, susp, hist, chist, bhist, dhist, shist, fhist,
          nhist, thist, data, task, facade>>

ghostVars == <<hist, chist, bhist, dhist, shist, fhist, nhist, thist>>
callerVars == <<data, task, facade>>
coreVars == <<clock, lock, timerqueue, hrtimer, alarm, fired>>
suspVars == <<freezer_delta, rtcdev, rtctimer, susp>>

Min2(x, y) == IF x < y THEN x ELSE y
Max2(x, y) == IF x > y THEN x ELSE y

\* ------------------------------------------------------------- timerqueue
\* lib/timerqueue.c: nodes ordered by expires, equal keys after the ones
\* already queued; head->next is the leftmost node.
timerqueue_add(q, a, al) ==
    LET k == Cardinality({i \in 1..Len(q) : al[q[i]].expires <= al[a].expires})
    IN  SubSeq(q, 1, k) \o <<a>> \o SubSeq(q, k + 1, Len(q))

timerqueue_del(q, a) == SelectSeq(q, LAMBDA x : x # a)

timerqueue_getnext(q) == IF q = <<>> THEN NULL ELSE Head(q)

Linked(q, a) == \E i \in 1..Len(q) : q[i] = a

\* ---------------------------------------------------------------- hrtimer
\* kernel/hrtimer.c as alarmtimer.c uses it.  A timer whose callback is
\* executing cannot be stopped by hrtimer_try_to_cancel; hrtimer_start
\* (re)programs the expiry and enqueues the timer; hrtimer_set_expires only
\* writes the expiry.
hrtimer_try_to_cancel(t) ==
    IF t.callback THEN t ELSE [t EXCEPT !.enqueued = FALSE]

hrtimer_start(t, e) == [t EXCEPT !.enqueued = TRUE, !.expires = e]

hrtimer_set_expires(t, e) == [t EXCEPT !.expires = e]

\* __run_hrtimer after the callback returned `ret`
hrtimer_callback_done(t, ret) ==
    [t EXCEPT !.callback = FALSE,
              !.enqueued = IF ret = HRTIMER_RESTART THEN TRUE ELSE @]

\* -------------------------------------------------------------- rtc timer
\* drivers/rtc/interface.c as alarmtimer.c uses it
rtc_timer_init == [armed |-> FALSE, expires |-> 0]
rtc_timer_cancel(t) == [t EXCEPT !.armed = FALSE]
rtc_timer_start(t, e) == [t EXCEPT !.armed = TRUE, !.expires = e]

\* ------------------------------------------------------- queue operations
\* alarmtimer_enqueue: alarm a (its expires already written in al) is added
\* to the queue q of a base whose timer is t.
alarmtimer_enqueue(q, t, al, a) ==
    LET q2 == timerqueue_add(q, a, al)
    IN  [q |-> q2,
         t |-> IF a = timerqueue_getnext(q2)
               THEN hrtimer_start(hrtimer_try_to_cancel(t), al[a].expires)
               ELSE t]

\* alarmtimer_remove without its timerqueue_del
alarmtimer_remove_keeps_node(q, t, al, a) ==
    LET next == timerqueue_getnext(q)
    IN  IF next = a
        THEN [q |-> q, t |-> hrtimer_start(hrtimer_try_to_cancel(t),
                                           al[next].expires)]
        ELSE [q |-> q, t |-> t]

\* alarmtimer_remove
alarmtimer_remove(q, t, al, a) ==
    LET next == timerqueue_getnext(q)
        q2 == timerqueue_del(q, a)
    IN  IF next = a
        THEN LET t2 == hrtimer_try_to_cancel(t)
                 n2 == timerqueue_getnext(q2)
             IN  [q |-> q2,
                  t |-> IF n2 = NULL THEN t2
                        ELSE hrtimer_start(t2, al[n2].expires)]
        ELSE [q |-> q2, t |-> t]

\* a re-add that leaves the expiry the alarm was dequeued for
Rearm_in_place(expired, period, now) == expired

\* a re-arm that counts the period from the time the drain read
Rearm_from_now(expired, period, now) == now + period

\* the expiry a periodic alarm is re-added with by alarmtimer_fired
Rearm(expired, period, now) == expired + period

\* ------------------------------------------------------------------- Init
\* alarm_init
alarm_init(type, function) ==
    [expires |-> 0, period |-> 0, function |-> function, type |-> type,
     enabled |-> FALSE]

FiredIdle == [pc |-> "idle", now |-> 0, alarm |-> NULL, expired |-> 0,
              ret |-> HRTIMER_NORESTART]
\* alarmtimer_suspend's position and locals: min, i, next
SuspIdle == [pc |-> "idle", min |-> 0, i |-> 1, next |-> NULL]

\* hist[a], about an alarm that is started once and then left alone:
\*   life    "never" (not started yet), "once" (started once, neither
\*           started again nor cancelled since), "void" (anything else; the
\*           other fields are then no longer kept)
\*   e0      the expiry of that alarm_start
\*   fires   callbacks invoked since
\*   missed  a drain returned leaving the alarm linked with expires <= its now
\*   after   how the drain that first invoked the callback returned: "" (it
\*           has not), "queued" (with an alarm in the queue), "stopped"
\*           (queue empty, HRTIMER_NORESTART, dispatch timer not enqueued),
\*           "armed" (queue empty, otherwise)
HistInit ==
    [life |-> "never", e0 |-> 0, fires |-> 0, missed |-> FALSE, after |-> ""]
HistVoid == [HistInit EXCEPT !.life = "void"]

\* chist[a], about the last alarm_cancel of a since its last alarm_start:
\*   found  "no" (there was none), or what that alarm_cancel found: "idle"
\*          (not linked, no firing pending), "linked" (linked, none
\*          pending), "inflight" (dequeued, function not yet called, not
\*          linked), "requeued" (the same, linked again)
\*   armed  it found the alarm linked, with no firing pending, alone in the
\*          queue, and the dispatch timer was enqueued when it returned
\*   late   callbacks invoked since it returned
CHistInit == [found |-> "no", armed |-> FALSE, late |-> 0]

\* bhist[b], about the firings of base b:
\*   max    the largest expiry a firing was dequeued for
\*   last   the expiry the last firing was dequeued for
\*   floor  that expiry, or a smaller one handed to alarm_start since
\*   under  a firing was dequeued for an expiry below floor
BHistInit == [max |-> -1, last |-> -1, floor |-> -1, under |-> FALSE]

\* dhist[b], about the last invocation of alarmtimer_fired on base b:
\*   now    the base time it read
\*   calls  the callbacks it has invoked
DHistInit == [now |-> -1, calls |-> 0]

\* shist, about the last run of alarmtimer_suspend:
\*   done    "no" (it has not returned), "nortc" (it returned for want of an
\*           rtc), "idle" (it returned at min == 0), "armed" (it returned
\*           from rtc_timer_start)
\*   entry   the freezer_delta it took at entry
\*   seen    the deltas it computed, one per base whose queue had a head
\*   rtcnow  the time it read from the rtc
SHistInit == [done |-> "no", entry |-> 0, seen |-> {}, rtcnow |-> 0]

\* fhist, about the deltas handed to the freezer_delta global:
\*   pending   the deltas published since the suspend hook last took it
\*   taken     the deltas that had been published when it last took it
\*   consumed  the value it took
\*   hooks     it has taken it at least once
FHistInit == [pending |-> {}, taken |-> {}, consumed |-> 0, hooks |-> FALSE]

\* thist[b], about the invocation of alarmtimer_fired that is running on
\* base b, from the moment it has read the base time:
\*   due      the one-shot alarms that were linked with an expiry <= that
\*            time when it was read
\*   called   the alarms whose function it has called
\*   again    the alarms whose function it has called more than once
\*   skipped  the alarms of due that an alarm_start or alarm_cancel found
\*            before this invocation had dequeued them
\*   late     an alarm_start has queued an alarm with an expiry <= that time
\*            since; the other fields are then no longer kept
THistInit ==
    [due |-> {}, called |-> {}, again |-> {}, skipped |-> {}, late |-> FALSE]

\* nhist, about the task's sleeps since alarm_timer_nsleep was entered:
\*   first  [type, exp] the first alarmtimer_do_nsleep was entered with,
\*          type NULL before there was one
\*   last   [type, exp] the last one was entered with
\*   req    what alarm_timer_nsleep was called with: abs (flags ==
\*          TIMER_ABSTIME), ts (*tsreq), and now, the base's time then
\*   cb     the wakeup callback found data set and cleared it, since the
\*          last alarmtimer_do_nsleep was entered
\*   wakes  wake-ups of the task that were neither the callback's nor a
\*          signal's, since alarm_timer_nsleep was entered
NHistInit ==
    [first |-> [type |-> NULL, exp |-> 0], last |-> [type |-> NULL, exp |-> 0],
     req |-> [abs |-> FALSE, ts |-> [tv_sec |-> 0, tv_nsec |-> 0], now |-> 0],
     cb |-> FALSE, wakes |-> 0]

\* the task, outside alarm_timer_nsleep:
\*   pc        where it is: "idle" (outside), "do_nsleep", "set_state",
\*             "start", "test", "schedule", "cancel", "while", "out"
\*   state     TASK_RUNNING or TASK_INTERRUPTIBLE
\*   sig       signal_pending(current)
\*   type, exp, abs, rmtp   the locals type, exp, flags == TIMER_ABSTIME,
\*             rmtp != NULL
\*   slept     what alarmtimer_do_nsleep returned
\*   ret       what the last call returned to the task
\*   restart   current_thread_info()->restart_block: fn and nanosleep
\*   restarted the call in progress is alarm_timer_nsleep_restart
\*   dangling  the frame of the alarm is gone and alarmtimer_fired still
\*             holds a pointer to it
RestartNone ==
    [fn |-> "do_no_restart_syscall", clockid |-> ALARM_REALTIME,
     expires |-> 0, rmtp |-> FALSE]

TaskIdle ==
    [pc |-> "idle", state |-> "RUNNING", sig |-> FALSE,
     type |-> ALARM_REALTIME, exp |-> 0, abs |-> FALSE, rmtp |-> FALSE,
     slept |-> FALSE, ret |-> "none", restart |-> RestartNone,
     restarted |-> FALSE, dangling |-> FALSE]

\* a struct itimerspec of zeroes
ZeroSetting ==
    [it_interval |-> [tv_sec |-> 0, tv_nsec |-> 0],
     it_value |-> [tv_sec |-> 0, tv_nsec |-> 0]]

\* facade, the posix clock interfaces as their caller sees them:
\*   op        the last one called, "none" before the first
\*   clock     the clockid it was called for, NULL if for a timer
\*   timer     the alarm of the k_itimer it was called for, NULL if none
\*   capable   capable(CAP_WAKE_ALARM) of its caller
\*   ret       what it returned ("none": alarm_timer_get returns nothing,
\*             and alarm_timer_nsleep may not have returned yet)
\*   interval  the it_interval it was given, as nanoseconds
\*   out       the struct itimerspec or struct timespec it filled in
\*   set       the alarms of the k_itimers alarm_timer_set has started
FacadeIdle ==
    [op |-> "none", clock |-> NULL, timer |-> NULL, capable |-> TRUE,
     ret |-> "none", interval |-> 0, out |-> ZeroSetting, set |-> {}]

\* alarmtimer_init, and alarm_init of every alarm the callers own
Init ==
    /\ clock = [b \in TypeSet |-> 0]
    /\ lock = [b \in TypeSet |-> "free"]
    /\ timerqueue = [b \in TypeSet |-> <<>>]
    /\ hrtimer = [b \in TypeSet |->
                    [enqueued |-> FALSE, callback |-> FALSE, expires |-> 0]]
    /\ alarm = [a \in Alarms |-> alarm_init(InitType(a), "handler")]
    /\ fired = [b \in TypeSet |-> FiredIdle]
    /\ freezer_delta = 0
    /\ rtcdev = FALSE
    /\ rtctimer = rtc_timer_init
    /\ susp = SuspIdle
    /\ hist = [a \in Alarms |-> HistInit]
    /\ chist = [a \in Alarms |-> CHistInit]
    /\ bhist = [b \in TypeSet |-> BHistInit]
    /\ dhist = [b \in TypeSet |-> DHistInit]
    /\ shist = SHistInit
    /\ fhist = FHistInit
    /\ nhist = NHistInit
    /\ thist = [b \in TypeSet |-> THistInit]
    /\ data = [a \in SleepAlarms |-> NULL]
    /\ task = TaskIdle
    /\ facade = FacadeIdle

\* ------------------------------------------------------------ base clocks
\* time passes: every base's gettime() moves forward by d, up to limit
ClockAdvance(d, limit) ==
    /\ d > 0
    /\ \A b \in TypeSet : clock[b] + d <= limit
    /\ clock' = [b \in TypeSet |-> clock[b] + d]
    /\ UNCHANGED <<lock, timerqueue, hrtimer, alarm, fired>>
    /\ UNCHANGED suspVars

\* --------------------------------------------------- alarm_start / cancel
\* the drain has dequeued a and has not yet called its function
InFlight(a) ==
    /\ fired[alarm[a].type].pc = "call"
    /\ fired[alarm[a].type].alarm = a

\* an alarm_start that links the node before it writes the new expiry
alarm_start_enqueue_first(a, start, period) ==
    LET b == alarm[a].type
        r1 == IF alarm[a].enabled
              THEN alarmtimer_remove(timerqueue[b], hrtimer[b], alarm, a)
              ELSE [q |-> timerqueue[b], t |-> hrtimer[b]]
        r2 == alarmtimer_enqueue(r1.q, r1.t, alarm, a)
    IN  /\ lock[b] = "free"
        /\ timerqueue' = [timerqueue EXCEPT ![b] = r2.q]
        /\ hrtimer' = [hrtimer EXCEPT ![b] = r2.t]
        /\ alarm' = [alarm EXCEPT ![a].expires = start, ![a].period = period,
                                  ![a].enabled = TRUE]
        /\ UNCHANGED <<clock, lock, fired>>
        /\ UNCHANGED suspVars

\* alarm_start: spin_lock_irqsave to spin_unlock_irqrestore is one step,
\* taken when the lock is free
alarm_start(a, start, period) ==
    LET b == alarm[a].type
        r1 == IF alarm[a].enabled
              THEN alarmtimer_remove(timerqueue[b], hrtimer[b], alarm, a)
              ELSE [q |-> timerqueue[b], t |-> hrtimer[b]]
        al2 == [alarm EXCEPT ![a].expires = start, ![a].period = period]
        r2 == alarmtimer_enqueue(r1.q, r1.t, al2, a)
    IN  /\ lock[b] = "free"
        /\ timerqueue' = [timerqueue EXCEPT ![b] = r2.q]
        /\ hrtimer' = [hrtimer EXCEPT ![b] = r2.t]
        /\ alarm' = [al2 EXCEPT ![a].enabled = TRUE]
        /\ UNCHANGED <<clock, lock, fired>>
        /\ UNCHANGED suspVars

\* an alarm_cancel that clears enabled and leaves the node where it is
alarm_cancel_flag_only(a) ==
    LET b == alarm[a].type
    IN  /\ lock[b] = "free"
        /\ alarm' = [alarm EXCEPT ![a].enabled = FALSE]
        /\ UNCHANGED <<clock, lock, timerqueue, hrtimer, fired>>
        /\ UNCHANGED suspVars

\* alarm_cancel, likewise
alarm_cancel(a) ==
    LET b == alarm[a].type
        r1 == IF alarm[a].enabled
              THEN alarmtimer_remove(timerqueue[b], hrtimer[b], alarm, a)
              ELSE [q |-> timerqueue[b], t |-> hrtimer[b]]
    IN  /\ lock[b] = "free"
        /\ timerqueue' = [timerqueue EXCEPT ![b] = r1.q]
        /\ hrtimer' = [hrtimer EXCEPT ![b] = r1.t]
        /\ alarm' = [alarm EXCEPT ![a].enabled = FALSE]
        /\ UNCHANGED <<clock, lock, fired>>
        /\ UNCHANGED suspVars

\* ------------------------------------------------------ alarmtimer_fired
\* the hrtimer core (__run_hrtimer) takes the expired timer off its queue
\* and calls its function, alarmtimer_fired
hrtimer_run(b) ==
    /\ hrtimer[b].enqueued
    /\ ~hrtimer[b].callback
    /\ hrtimer[b].expires <= clock[b]
    /\ hrtimer' = [hrtimer EXCEPT ![b].enqueued = FALSE, ![b].callback = TRUE]
    /\ fired' = [fired EXCEPT ![b].pc = "enter"]
    /\ UNCHANGED <<clock, lock, timerqueue, alarm>>
    /\ UNCHANGED suspVars

\* alarmtimer_fired: spin_lock_irqsave; now = base->gettime()
alarmtimer_fired_enter(b) ==
    /\ fired[b].pc = "enter"
    /\ lock[b] = "free"
    /\ lock' = [lock EXCEPT ![b] = "fired"]
    /\ fired' = [fired EXCEPT ![b].pc = "loop", ![b].now = clock[b],
                              ![b].ret = HRTIMER_NORESTART]
    /\ UNCHANGED <<clock, timerqueue, hrtimer, alarm>>
    /\ UNCHANGED suspVars

\* a break that also stops at a head whose expiry equals now
Expired_before_now(b) ==
    /\ timerqueue_getnext(timerqueue[b]) # NULL
    /\ alarm[timerqueue_getnext(timerqueue[b])].expires < fired[b].now

\* the while condition and the break of alarmtimer_fired
Expired(b) ==
    /\ timerqueue_getnext(timerqueue[b]) # NULL
    /\ ~(alarm[timerqueue_getnext(timerqueue[b])].expires > fired[b].now)

\* a loop body that calls the function without spin_unlock_irqrestore
alarmtimer_fired_expire_locked(b) ==
    LET a == timerqueue_getnext(timerqueue[b])
        expired == alarm[a].expires
        q1 == timerqueue_del(timerqueue[b], a)
        al1 == [alarm EXCEPT ![a].enabled = FALSE]
        al2 == [al1 EXCEPT ![a].expires =
                              Rearm(expired, alarm[a].period, fired[b].now)]
    IN  /\ fired[b].pc = "loop"
        /\ Expired(b)
        /\ IF alarm[a].period # 0
           THEN /\ timerqueue' = [timerqueue EXCEPT
                                    ![b] = timerqueue_add(q1, a, al2)]
                /\ alarm' = [al2 EXCEPT ![a].enabled = TRUE]
           ELSE /\ timerqueue' = [timerqueue EXCEPT ![b] = q1]
                /\ alarm' = al1
        /\ fired' = [fired EXCEPT ![b].pc = "call", ![b].alarm = a,
                                  ![b].expired = expired]
        /\ UNCHANGED <<clock, lock, hrtimer>>
        /\ UNCHANGED suspVars

\* one pass of the loop body down to spin_unlock_irqrestore
alarmtimer_fired_expire(b) ==
    LET a == timerqueue_getnext(timerqueue[b])
        expired == alarm[a].expires
        q1 == timerqueue_del(timerqueue[b], a)
        al1 == [alarm EXCEPT ![a].enabled = FALSE]
        al2 == [al1 EXCEPT ![a].expires =
                              Rearm(expired, alarm[a].period, fired[b].now)]
    IN  /\ fired[b].pc = "loop"
        /\ Expired(b)
        /\ IF alarm[a].period # 0
           THEN /\ timerqueue' = [timerqueue EXCEPT
                                    ![b] = timerqueue_add(q1, a, al2)]
                /\ alarm' = [al2 EXCEPT ![a].enabled = TRUE]
           ELSE /\ timerqueue' = [timerqueue EXCEPT ![b] = q1]
                /\ alarm' = al1
        /\ lock' = [lock EXCEPT ![b] = "free"]
        /\ fired' = [fired EXCEPT ![b].pc = "call", ![b].alarm = a,
                                  ![b].expired = expired]
        /\ UNCHANGED <<clock, hrtimer>>
        /\ UNCHANGED suspVars

\* if (alarm->function) alarm->function(alarm)
alarmtimer_fired_call(b) ==
    LET a == fired[b].alarm
    IN  /\ fired[b].pc = "call"
        /\ fired' = [fired EXCEPT ![b].pc = "called"]
        /\ UNCHANGED <<clock, lock, timerqueue, hrtimer, alarm>>
        /\ UNCHANGED suspVars

\* the function returned; spin_lock_irqsave again
alarmtimer_fired_relock(b) ==
    /\ fired[b].pc = "called"
    /\ lock[b] = "free"
    /\ lock' = [lock EXCEPT ![b] = "fired"]
    /\ fired' = [fired EXCEPT ![b].pc = "loop", ![b].alarm = NULL,
                              ![b].expired = 0]
    /\ UNCHANGED <<clock, timerqueue, hrtimer, alarm>>
    /\ UNCHANGED suspVars

\* after the loop: reprogram for the next node, unlock, return
alarmtimer_fired_return(b) ==
    LET next == timerqueue_getnext(timerqueue[b])
        ret == IF next # NULL THEN HRTIMER_RESTART ELSE HRTIMER_NORESTART
        t1 == IF next # NULL
              THEN hrtimer_set_expires(hrtimer[b], alarm[next].expires)
              ELSE hrtimer[b]
    IN  /\ fired[b].pc = "loop"
        /\ ~Expired(b)
        /\ hrtimer' = [hrtimer EXCEPT ![b] = hrtimer_callback_done(t1, ret)]
        /\ lock' = [lock EXCEPT ![b] = "free"]
        /\ fired' = [fired EXCEPT ![b] = [FiredIdle EXCEPT !.ret = ret]]
        /\ UNCHANGED <<clock, timerqueue, alarm>>
        /\ UNCHANGED suspVars

\* ----------------------------------------------------- suspend and rtc
\* alarmtimer_get_rtcdev: the first call that finds a wakealarm-capable
\* device selects it and initialises rtctimer
alarmtimer_get_rtcdev(found) ==
    /\ rtcdev' = (rtcdev \/ found)
    /\ rtctimer' = IF ~rtcdev /\ found THEN rtc_timer_init ELSE rtctimer
    /\ UNCHANGED <<freezer_delta, susp>>
    /\ UNCHANGED coreVars

\* alarmtimer_freezerset
alarmtimer_freezerset(absexp, type) ==
    LET delta == absexp - clock[type]
    IN  /\ freezer_delta' = IF freezer_delta = 0 \/ delta < freezer_delta
                            THEN delta ELSE freezer_delta
        /\ UNCHANGED <<rtcdev, rtctimer, susp>>
        /\ UNCHANGED coreVars

\* alarmtimer_suspend down to the loop: min = freezer_delta, freezer_delta
\* cleared, return 0 without an rtc
alarmtimer_suspend_enter ==
    /\ susp.pc = "idle"
    /\ freezer_delta' = 0
    /\ susp' = IF rtcdev
               THEN [SuspIdle EXCEPT !.pc = "base", !.min = freezer_delta]
               ELSE SuspIdle
    /\ UNCHANGED <<rtcdev, rtctimer>>
    /\ UNCHANGED coreVars

\* one base of the loop: next is read under the base lock
alarmtimer_suspend_peek ==
    LET b == Types[susp.i]
        next == timerqueue_getnext(timerqueue[b])
    IN  /\ susp.pc = "base"
        /\ lock[b] = "free"
        /\ susp' = IF next # NULL
                   THEN [susp EXCEPT !.pc = "delta", !.next = next]
                   ELSE IF susp.i < Len(Types)
                   THEN [susp EXCEPT !.i = @ + 1]
                   ELSE [susp EXCEPT !.pc = "finish"]
        /\ UNCHANGED <<freezer_delta, rtcdev, rtctimer>>
        /\ UNCHANGED coreVars

\* delta = next->expires - base->gettime(), read after the unlock
SuspendDelta == alarm[susp.next].expires - clock[Types[susp.i]]

\* if (!min.tv64 || (delta.tv64 < min.tv64)) min = delta
alarmtimer_suspend_delta ==
    /\ susp.pc = "delta"
    /\ susp' = [susp EXCEPT
                  !.min = IF @ = 0 \/ SuspendDelta < @ THEN SuspendDelta ELSE @,
                  !.next = NULL,
                  !.i = IF @ < Len(Types) THEN @ + 1 ELSE @,
                  !.pc = IF susp.i < Len(Types) THEN "base" ELSE "finish"]
    /\ UNCHANGED <<freezer_delta, rtcdev, rtctimer>>
    /\ UNCHANGED coreVars

\* after the loop: return at min == 0, else rtc_timer_cancel, rtc_read_time
\* (which gives rtc_now) and rtc_timer_start
alarmtimer_suspend_finish(rtc_now) ==
    /\ susp.pc = "finish"
    /\ rtctimer' = IF susp.min = 0 THEN rtctimer
                   ELSE rtc_timer_start(rtc_timer_cancel(rtctimer),
                                        rtc_now + susp.min)
    /\ susp' = SuspIdle
    /\ UNCHANGED <<freezer_delta, rtcdev>>
    /\ UNCHANGED coreVars

\* ------------------------------------------------------------- nsleep
clock2alarm(clockid) ==
    IF clockid = CLOCK_REALTIME_ALARM THEN ALARM_REALTIME
    ELSE IF clockid = CLOCK_BOOTTIME_ALARM THEN ALARM_BOOTTIME
    ELSE NoType

\* the largest ktime_t (scaled down to the integers of the model checker)
KTIME_MAX == 2147483647

NSEC_PER_SEC == 1000000000
KTIME_SEC_MAX == KTIME_MAX \div NSEC_PER_SEC

\* ktime_set: seconds and nanoseconds to ktime_t, KTIME_MAX from
\* KTIME_SEC_MAX seconds on
ktime_set(secs, nsecs) ==
    IF secs >= KTIME_SEC_MAX THEN KTIME_MAX ELSE secs * NSEC_PER_SEC + nsecs

timespec_to_ktime(ts) == ktime_set(ts.tv_sec, ts.tv_nsec)

\* ktime_to_timespec: tv_nsec is brought into 0 .. NSEC_PER_SEC - 1
ktime_to_timespec(kt) ==
    [tv_sec |-> kt \div NSEC_PER_SEC, tv_nsec |-> kt % NSEC_PER_SEC]

\* ktime_add_safe: the sum, KTIME_MAX where the sum would overflow
ktime_add_safe(lhs, rhs) ==
    IF rhs > KTIME_MAX - lhs THEN KTIME_MAX ELSE lhs + rhs

\* a callback that clears alarm->data and leaves the task asleep
alarmtimer_nsleep_wakeup_no_wake(a) ==
    /\ data' = [data EXCEPT ![a] = NULL]
    /\ task' = task

\* alarmtimer_nsleep_wakeup
alarmtimer_nsleep_wakeup(a) ==
    /\ data' = [data EXCEPT ![a] = NULL]
    /\ task' = IF data[a] # NULL
               THEN [task EXCEPT !.state = "RUNNING"]
               ELSE task

\* alarm->function(alarm) as alarmtimer_fired calls it: nothing the model
\* keeps for the handlers of the other alarms; alarmtimer_nsleep_wakeup for
\* the alarm of a sleeping task, and, where the frame that alarm lived in is
\* gone, either the same on whatever alarm is at that address now or
\* nothing
Function(b) ==
    LET a == fired[b].alarm
    IN  IF a \in SleepAlarms /\ alarm[a].function = "nsleep_wakeup"
        THEN IF task.dangling
             THEN \/ /\ data' = [data EXCEPT ![a] = NULL]
                     /\ task' = IF data[a] # NULL
                                THEN [task EXCEPT !.state = "RUNNING",
                                                  !.dangling = FALSE]
                                ELSE [task EXCEPT !.dangling = FALSE]
                  \/ /\ task' = [task EXCEPT !.dangling = FALSE]
                     /\ UNCHANGED data
             ELSE alarmtimer_nsleep_wakeup(a)
        ELSE UNCHANGED <<data, task>>

\* alarmtimer_do_nsleep: alarm->data = (void *)current
alarmtimer_do_nsleep_enter ==
    /\ task.pc = "do_nsleep"
    /\ data' = [data EXCEPT !["n1"] = "current"]
    /\ task' = [task EXCEPT !.pc = "set_state"]
    /\ UNCHANGED <<coreVars, suspVars>>

\* set_current_state(TASK_INTERRUPTIBLE)
alarmtimer_do_nsleep_set_state ==
    /\ task.pc = "set_state"
    /\ task' = [task EXCEPT !.pc = "start", !.state = "INTERRUPTIBLE"]
    /\ UNCHANGED <<coreVars, suspVars, data>>

\* alarm_start(alarm, absexp, ktime_set(0, 0))
alarmtimer_do_nsleep_start ==
    /\ task.pc = "start"
    /\ alarm_start("n1", task.exp, 0)
    /\ task' = [task EXCEPT !.pc = "test"]
    /\ UNCHANGED data

\* if (likely(alarm->data))
alarmtimer_do_nsleep_test ==
    /\ task.pc = "test"
    /\ task' = [task EXCEPT
                  !.pc = IF data["n1"] # NULL THEN "schedule" ELSE "cancel"]
    /\ UNCHANGED <<coreVars, suspVars, data>>

\* schedule(): returns once the task is runnable; a task that calls it in
\* TASK_INTERRUPTIBLE with a signal pending stays runnable
schedule ==
    /\ task.pc = "schedule"
    /\ task.state = "RUNNING" \/ task.sig
    /\ task' = [task EXCEPT !.pc = "cancel", !.state = "RUNNING"]
    /\ UNCHANGED <<coreVars, suspVars, data>>

\* alarm_cancel(alarm)
alarmtimer_do_nsleep_cancel ==
    /\ task.pc = "cancel"
    /\ alarm_cancel("n1")
    /\ task' = [task EXCEPT !.pc = "while"]
    /\ UNCHANGED data

\* a loop that gives up after the first wake-up, whatever woke the task
alarmtimer_do_nsleep_while_once ==
    /\ task.pc = "while"
    /\ task' = [task EXCEPT !.pc = "out", !.state = "RUNNING",
                            !.slept = (data["n1"] = NULL)]
    /\ UNCHANGED <<coreVars, suspVars, data>>

\* while (alarm->data && !signal_pending(current));
\* __set_current_state(TASK_RUNNING); return (alarm->data == NULL)
alarmtimer_do_nsleep_while ==
    /\ task.pc = "while"
    /\ task' = IF data["n1"] # NULL /\ ~task.sig
               THEN [task EXCEPT !.pc = "set_state"]
               ELSE [task EXCEPT !.pc = "out", !.state = "RUNNING",
                                 !.slept = (data["n1"] = NULL)]
    /\ UNCHANGED <<coreVars, suspVars, data>>

\* update_rmtp: 0 if no time remains, -EFAULT if copy_to_user fails, else 1
update_rmtp(exp, type, fault) ==
    LET rem == exp - clock[type]
    IN  IF rem <= 0 THEN "0" ELSE IF fault THEN "EFAULT" ELSE "1"

\* alarm_timer_nsleep down to the call of alarmtimer_do_nsleep; with a
\* clock that is neither alarm clock, what follows the two checks works on
\* alarm_bases[-1], and any result is possible
alarm_timer_nsleep(found, capable, which_clock, flags, tsreq, rmtp) ==
    LET type == clock2alarm(which_clock)
        exp == IF flags # TIMER_ABSTIME
               THEN ktime_add_safe(clock[type], timespec_to_ktime(tsreq))
               ELSE timespec_to_ktime(tsreq)
    IN  /\ task.pc = "idle"
        /\ rtcdev' = (rtcdev \/ found)
        /\ rtctimer' = IF ~rtcdev /\ found THEN rtc_timer_init ELSE rtctimer
        /\ IF ~rtcdev'
           THEN /\ task' = [task EXCEPT !.ret = "ENOTSUPP"]
                /\ UNCHANGED alarm
           ELSE IF ~capable
           THEN /\ task' = [task EXCEPT !.ret = "EPERM"]
                /\ UNCHANGED alarm
           ELSE IF type = NoType
           THEN /\ \E r \in {"0", "ERESTARTNOHAND", "ERESTART_RESTARTBLOCK",
                              "EFAULT", "oops"} :
                       task' = [task EXCEPT !.ret = r]
                /\ UNCHANGED alarm
           ELSE /\ alarm' = [alarm EXCEPT
                               !["n1"] = alarm_init(type, "nsleep_wakeup")]
                /\ task' = [task EXCEPT
                              !.pc = "do_nsleep", !.type = type, !.exp = exp,
                              !.abs = (flags = TIMER_ABSTIME),
                              !.rmtp = rmtp, !.ret = "none",
                              !.restarted = FALSE]
        /\ UNCHANGED <<clock, lock, timerqueue, hrtimer, fired>>
        /\ UNCHANGED <<freezer_delta, susp, data>>

\* an alarm_timer_nsleep that puts the time that remains in the restart
\* block, where the absolute expiry belongs
alarm_timer_nsleep_out_remaining(freezing, fault) ==
    LET r == update_rmtp(task.exp, task.type, fault)
        ret == IF task.slept THEN "0"
               ELSE IF task.abs THEN "ERESTARTNOHAND"
               ELSE IF task.rmtp /\ r # "1" THEN r
               ELSE "ERESTART_RESTARTBLOCK"
    IN  /\ task.pc = "out"
        /\ ~task.restarted
        /\ IF ~task.slept /\ freezing
           THEN alarmtimer_freezerset(task.exp, task.type)
           ELSE UNCHANGED <<coreVars, suspVars>>
        /\ task' = [TaskIdle EXCEPT
                      !.ret = ret,
                      !.restart = IF ret = "ERESTART_RESTARTBLOCK"
                                  THEN [fn |-> "alarm_timer_nsleep_restart",
                                        clockid |-> task.type,
                                        expires |->
                                            task.exp - clock[task.type],
                                        rmtp |-> task.rmtp]
                                  ELSE task.restart,
                      !.dangling = InFlight("n1")]
        /\ data' = [data EXCEPT !["n1"] = NULL]

\* alarm_timer_nsleep from the return of alarmtimer_do_nsleep on; the
\* alarm, and its data, go out of scope, and the signal, if there is one,
\* is handled on the way back to user mode
alarm_timer_nsleep_out(freezing, fault) ==
    LET r == update_rmtp(task.exp, task.type, fault)
        ret == IF task.slept THEN "0"
               ELSE IF task.abs THEN "ERESTARTNOHAND"
               ELSE IF task.rmtp /\ r # "1" THEN r
               ELSE "ERESTART_RESTARTBLOCK"
    IN  /\ task.pc = "out"
        /\ ~task.restarted
        /\ IF ~task.slept /\ freezing
           THEN alarmtimer_freezerset(task.exp, task.type)
           ELSE UNCHANGED <<coreVars, suspVars>>
        /\ task' = [TaskIdle EXCEPT
                      !.ret = ret,
                      !.restart = IF ret = "ERESTART_RESTARTBLOCK"
                                  THEN [fn |-> "alarm_timer_nsleep_restart",
                                        clockid |-> task.type,
                                        expires |-> task.exp,
                                        rmtp |-> task.rmtp]
                                  ELSE task.restart,
                      !.dangling = InFlight("n1")]
        /\ data' = [data EXCEPT !["n1"] = NULL]

\* alarm_timer_nsleep_restart down to the call of alarmtimer_do_nsleep; the
\* kernel calls it when the task's last call asked for it
alarm_timer_nsleep_restart ==
    /\ task.pc = "idle"
    /\ task.ret = "ERESTART_RESTARTBLOCK"
    /\ task.restart.fn = "alarm_timer_nsleep_restart"
    /\ alarm' = [alarm EXCEPT
                   !["n1"] = alarm_init(task.restart.clockid, "nsleep_wakeup")]
    /\ task' = [task EXCEPT
                  !.pc = "do_nsleep", !.type = task.restart.clockid,
                  !.exp = task.restart.expires, !.rmtp = task.restart.rmtp,
                  !.ret = "none", !.restarted = TRUE]
    /\ UNCHANGED <<clock, lock, timerqueue, hrtimer, fired>>
    /\ UNCHANGED <<suspVars, data>>

\* alarm_timer_nsleep_restart from the return of alarmtimer_do_nsleep on
alarm_timer_nsleep_restart_out(freezing, fault) ==
    LET r == update_rmtp(task.exp, task.type, fault)
        ret == IF task.slept THEN "0"
               ELSE IF task.rmtp /\ r # "1" THEN r
               ELSE "ERESTART_RESTARTBLOCK"
    IN  /\ task.pc = "out"
        /\ task.restarted
        /\ IF ~task.slept /\ freezing
           THEN alarmtimer_freezerset(task.exp, task.type)
           ELSE UNCHANGED <<coreVars, suspVars>>
        /\ task' = [TaskIdle EXCEPT !.ret = ret, !.restart = task.restart,
                                    !.dangling = InFlight("n1")]
        /\ data' = [data EXCEPT !["n1"] = NULL]

\* a signal is sent to the task: signal_wake_up
signal_deliver ==
    /\ task.pc # "idle"
    /\ ~task.sig
    /\ task' = [task EXCEPT !.sig = TRUE, !.state = "RUNNING"]
    /\ UNCHANGED <<coreVars, suspVars, data>>

\* wake_up_process(task) by anyone else (the freezer, say)
wake_up_process ==
    /\ task.state = "INTERRUPTIBLE"
    /\ task' = [task EXCEPT !.state = "RUNNING"]
    /\ UNCHANGED <<coreVars, suspVars, data>>

\* -------------------------------------------------- posix clock facade
\* hrtimer_get_res: the resolution of the high resolution timers, whatever
\* the clock
hrtimer_get_res == [tv_sec |-> 0, tv_nsec |-> 1]

\* what a facade call with no result worth keeping leaves in facade
Called(op, clockid, a, capable, ret) ==
    [facade EXCEPT !.op = op, !.clock = clockid, !.timer = a,
                   !.capable = capable, !.ret = ret, !.interval = 0,
                   !.out = ZeroSetting]

\* alarm_clock_getres: base_clockid is read from alarm_bases[-1] for a
\* clock that is neither alarm clock; hrtimer_get_res does not look at it
alarm_clock_getres(found, which_clock) ==
    /\ rtcdev' = (rtcdev \/ found)
    /\ rtctimer' = IF ~rtcdev /\ found THEN rtc_timer_init ELSE rtctimer
    /\ facade' = IF ~rtcdev'
                 THEN Called("getres", which_clock, NULL, TRUE, "ENOTSUPP")
                 ELSE [Called("getres", which_clock, NULL, TRUE, "0")
                          EXCEPT !.out.it_value = hrtimer_get_res]
    /\ UNCHANGED <<coreVars, freezer_delta, susp, data, task>>

\* alarm_clock_get: for a clock that is neither alarm clock the gettime
\* called is whatever alarm_bases[-1] holds, and any result is possible
alarm_clock_get(found, which_clock) ==
    LET type == clock2alarm(which_clock)
    IN  /\ rtcdev' = (rtcdev \/ found)
        /\ rtctimer' = IF ~rtcdev /\ found THEN rtc_timer_init ELSE rtctimer
        /\ IF ~rtcdev'
           THEN facade' =
                    Called("clock_get", which_clock, NULL, TRUE, "ENOTSUPP")
           ELSE IF type = NoType
           THEN \E r \in {"0", "oops"} :
                    facade' = Called("clock_get", which_clock, NULL, TRUE, r)
           ELSE facade' =
                    [Called("clock_get", which_clock, NULL, TRUE, "0")
                        EXCEPT !.out.it_value = ktime_to_timespec(clock[type])]
        /\ UNCHANGED <<coreVars, freezer_delta, susp, data, task>>

\* an alarm_timer_create that does not ask for the capability
alarm_timer_create_uncapped(found, capable, a, which_clock) ==
    LET type == clock2alarm(which_clock)
    IN  /\ ~alarm[a].enabled
        /\ rtcdev' = (rtcdev \/ found)
        /\ rtctimer' = IF ~rtcdev /\ found THEN rtc_timer_init ELSE rtctimer
        /\ IF ~rtcdev'
           THEN /\ facade' = Called("timer_create", which_clock, a, capable,
                                    "ENOTSUPP")
                /\ UNCHANGED alarm
           ELSE /\ facade' = [Called("timer_create", which_clock, a, capable,
                                     "0")
                                 EXCEPT !.set = @ \ {a}]
                /\ alarm' = [alarm EXCEPT
                               ![a] = alarm_init(type, "alarm_handle_timer")]
        /\ UNCHANGED <<clock, lock, timerqueue, hrtimer, fired>>
        /\ UNCHANGED <<freezer_delta, susp, data, task>>

\* alarm_timer_create, for a k_itimer whose alarm is not started
alarm_timer_create(found, capable, a, which_clock) ==
    LET type == clock2alarm(which_clock)
    IN  /\ ~alarm[a].enabled
        /\ rtcdev' = (rtcdev \/ found)
        /\ rtctimer' = IF ~rtcdev /\ found THEN rtc_timer_init ELSE rtctimer
        /\ IF ~rtcdev'
           THEN /\ facade' = Called("timer_create", which_clock, a, capable,
                                    "ENOTSUPP")
                /\ UNCHANGED alarm
           ELSE IF ~capable
           THEN /\ facade' = Called("timer_create", which_clock, a, capable,
                                    "EPERM")
                /\ UNCHANGED alarm
           ELSE /\ facade' = [Called("timer_create", which_clock, a, capable,
                                     "0")
                                 EXCEPT !.set = @ \ {a}]
                /\ alarm' = [alarm EXCEPT
                               ![a] = alarm_init(type, "alarm_handle_timer")]
        /\ UNCHANGED <<clock, lock, timerqueue, hrtimer, fired>>
        /\ UNCHANGED <<freezer_delta, susp, data, task>>

\* alarm_timer_get: fills in *cur_setting, returns nothing
alarm_timer_get(a) ==
    /\ facade' = [Called("timer_get", NULL, a, TRUE, "none")
                     EXCEPT !.out =
                         [it_interval |-> ktime_to_timespec(alarm[a].period),
                          it_value |-> ktime_to_timespec(alarm[a].expires)]]
    /\ UNCHANGED <<coreVars, suspVars, data, task>>

\* an alarm_timer_del that cancels without looking for an rtc
alarm_timer_del_unchecked(found, a) ==
    /\ UNCHANGED <<rtcdev, rtctimer>>
    /\ IF alarm[a].type = NoType
       THEN /\ \E r \in {"0", "oops"} :
                   facade' = Called("timer_del", NULL, a, TRUE, r)
            /\ UNCHANGED <<clock, lock, timerqueue, hrtimer, alarm, fired>>
       ELSE /\ lock[alarm[a].type] = "free"
            /\ LET b == alarm[a].type
                   r1 == IF alarm[a].enabled
                         THEN alarmtimer_remove(timerqueue[b], hrtimer[b],
                                                alarm, a)
                         ELSE [q |-> timerqueue[b], t |-> hrtimer[b]]
               IN  /\ timerqueue' = [timerqueue EXCEPT ![b] = r1.q]
                   /\ hrtimer' = [hrtimer EXCEPT ![b] = r1.t]
                   /\ alarm' = [alarm EXCEPT ![a].enabled = FALSE]
            /\ facade' = [Called("timer_del", NULL, a, TRUE, "0")
                             EXCEPT !.set = @ \ {a}]
            /\ UNCHANGED <<clock, lock, fired>>
    /\ UNCHANGED <<freezer_delta, susp, data, task>>

\* alarm_timer_del. The alarm of a timer created for a clock that is neither
\* alarm clock has its base at alarm_bases[-1], and any result is possible
alarm_timer_del(found, a) ==
    /\ rtcdev' = (rtcdev \/ found)
    /\ rtctimer' = IF ~rtcdev /\ found THEN rtc_timer_init ELSE rtctimer
    /\ IF ~rtcdev'
       THEN /\ facade' = Called("timer_del", NULL, a, TRUE, "ENOTSUPP")
            /\ UNCHANGED <<clock, lock, timerqueue, hrtimer, alarm, fired>>
       ELSE IF alarm[a].type = NoType
       THEN /\ \E r \in {"0", "oops"} :
                   facade' = Called("timer_del", NULL, a, TRUE, r)
            /\ UNCHANGED <<clock, lock, timerqueue, hrtimer, alarm, fired>>
       ELSE /\ lock[alarm[a].type] = "free"
            /\ LET b == alarm[a].type
                   r1 == IF alarm[a].enabled
                         THEN alarmtimer_remove(timerqueue[b], hrtimer[b],
                                                alarm, a)
                         ELSE [q |-> timerqueue[b], t |-> hrtimer[b]]
               IN  /\ timerqueue' = [timerqueue EXCEPT ![b] = r1.q]
                   /\ hrtimer' = [hrtimer EXCEPT ![b] = r1.t]
                   /\ alarm' = [alarm EXCEPT ![a].enabled = FALSE]
            /\ facade' = [Called("timer_del", NULL, a, TRUE, "0")
                             EXCEPT !.set = @ \ {a}]
            /\ UNCHANGED <<clock, lock, fired>>
    /\ UNCHANGED <<freezer_delta, susp, data, task>>

\* the smallest it_interval alarm_timer_set lets through, in nanoseconds
MinInterval == 100000

\* an alarm_timer_set that takes the interval as it comes
alarm_timer_set_unclamped(found, a, new_setting, old_setting) ==
    LET b == alarm[a].type
        interval == new_setting.it_interval
        start == timespec_to_ktime(new_setting.it_value)
        period == timespec_to_ktime(interval)
        old == IF old_setting
               THEN [it_interval |-> ktime_to_timespec(alarm[a].period),
                     it_value |-> ktime_to_timespec(alarm[a].expires)]
               ELSE ZeroSetting
        r1 == IF alarm[a].enabled
              THEN alarmtimer_remove(timerqueue[b], hrtimer[b], alarm, a)
              ELSE [q |-> timerqueue[b], t |-> hrtimer[b]]
        al2 == [alarm EXCEPT ![a].expires = start, ![a].period = period]
        r2 == alarmtimer_enqueue(r1.q, r1.t, al2, a)
    IN  /\ rtcdev' = (rtcdev \/ found)
        /\ rtctimer' = IF ~rtcdev /\ found THEN rtc_timer_init ELSE rtctimer
        /\ IF ~rtcdev'
           THEN /\ facade' = Called("timer_set", NULL, a, TRUE, "ENOTSUPP")
                /\ UNCHANGED <<timerqueue, hrtimer, alarm>>
           ELSE IF b = NoType
           THEN /\ \E r \in {"0", "oops"} :
                       facade' = Called("timer_set", NULL, a, TRUE, r)
                /\ UNCHANGED <<timerqueue, hrtimer, alarm>>
           ELSE /\ lock[b] = "free"
                /\ timerqueue' = [timerqueue EXCEPT ![b] = r2.q]
                /\ hrtimer' = [hrtimer EXCEPT ![b] = r2.t]
                /\ alarm' = [al2 EXCEPT ![a].enabled = TRUE]
                /\ facade' = [Called("timer_set", NULL, a, TRUE, "0")
                                 EXCEPT !.interval =
                                            timespec_to_ktime(
                                                new_setting.it_interval),
                                        !.out = old,
                                        !.set = @ \cup {a}]
        /\ UNCHANGED <<clock, lock, fired>>
        /\ UNCHANGED <<freezer_delta, susp, data, task>>

\* alarm_timer_set: the interval raised to MinInterval, the old setting
\* copied out, then alarm_cancel and alarm_start, which together do to the
\* queue, the alarm and the dispatch timer what alarmtimer_remove of an
\* enabled alarm followed by alarmtimer_enqueue does. The alarm of a timer
\* created for a clock that is neither alarm clock has its base at
\* alarm_bases[-1], and any result is possible
alarm_timer_set(found, a, new_setting, old_setting) ==
    LET b == alarm[a].type
        interval == IF new_setting.it_interval.tv_sec = 0
                       /\ new_setting.it_interval.tv_nsec < MinInterval
                    THEN [new_setting.it_interval
                             EXCEPT !.tv_nsec = MinInterval]
                    ELSE new_setting.it_interval
        start == timespec_to_ktime(new_setting.it_value)
        period == timespec_to_ktime(interval)
        old == IF old_setting
               THEN [it_interval |-> ktime_to_timespec(alarm[a].period),
                     it_value |-> ktime_to_timespec(alarm[a].expires)]
               ELSE ZeroSetting
        r1 == IF alarm[a].enabled
              THEN alarmtimer_remove(timerqueue[b], hrtimer[b], alarm, a)
              ELSE [q |-> timerqueue[b], t |-> hrtimer[b]]
        al2 == [alarm EXCEPT ![a].expires = start, ![a].period = period]
        r2 == alarmtimer_enqueue(r1.q, r1.t, al2, a)
    IN  /\ rtcdev' = (rtcdev \/ found)
        /\ rtctimer' = IF ~rtcdev /\ found THEN rtc_timer_init ELSE rtctimer
        /\ IF ~rtcdev'
           THEN /\ facade' = Called("timer_set", NULL, a, TRUE, "ENOTSUPP")
                /\ UNCHANGED <<timerqueue, hrtimer, alarm>>
           ELSE IF b = NoType
           THEN /\ \E r \in {"0", "oops"} :
                       facade' = Called("timer_set", NULL, a, TRUE, r)
                /\ UNCHANGED <<timerqueue, hrtimer, alarm>>
           ELSE /\ lock[b] = "free"
                /\ timerqueue' = [timerqueue EXCEPT ![b] = r2.q]
                /\ hrtimer' = [hrtimer EXCEPT ![b] = r2.t]
                /\ alarm' = [al2 EXCEPT ![a].enabled = TRUE]
                /\ facade' = [Called("timer_set", NULL, a, TRUE, "0")
                                 EXCEPT !.interval =
                                            timespec_to_ktime(
                                                new_setting.it_interval),
                                        !.out = old,
                                        !.set = @ \cup {a}]
        /\ UNCHANGED <<clock, lock, fired>>
        /\ UNCHANGED <<freezer_delta, susp, data, task>>

\* ---------------------------------------------------- history variables
\* hist, chist, bhist, dhist and shist record what has happened; no action of the
\* program reads them.  A specification that checks nothing about a history leaves
\* it unchanged.
HistStart(a, start) ==
    hist' = [hist EXCEPT ![a] =
               IF @.life = "never"
               THEN [HistInit EXCEPT !.life = "once", !.e0 = start]
               ELSE HistVoid]

HistCancel(a) ==
    hist' = [hist EXCEPT ![a] = IF @.life = "never" THEN @ ELSE HistVoid]

HistCall(b) ==
    LET a == fired[b].alarm
    IN  hist' = IF alarm[a].function # NULL /\ hist[a].life = "once"
                THEN [hist EXCEPT ![a].fires = @ + 1]
                ELSE hist

HistReturn(b) ==
    LET after == IF timerqueue[b] # <<>> THEN "queued"
                 ELSE IF /\ fired'[b].ret = HRTIMER_NORESTART
                         /\ ~hrtimer'[b].enqueued
                 THEN "stopped"
                 ELSE "armed"
    IN  hist' = [a \in Alarms |->
                   IF hist[a].life # "once" \/ alarm[a].type # b
                   THEN hist[a]
                   ELSE [hist[a] EXCEPT
                           !.missed = @ \/ /\ Linked(timerqueue[b], a)
                                           /\ alarm[a].expires <= fired[b].now,
                           !.after = IF @ = "" /\ hist[a].fires > 0
                                     THEN after ELSE @]]

CHistStart(a) == chist' = [chist EXCEPT ![a] = CHistInit]

CHistCancel(a) ==
    LET b == alarm[a].type
        found == IF InFlight(a)
                 THEN (IF alarm[a].enabled THEN "requeued" ELSE "inflight")
                 ELSE (IF alarm[a].enabled THEN "linked" ELSE "idle")
    IN  chist' = [chist EXCEPT ![a] =
                    [found |-> found,
                     armed |-> /\ found = "linked"
                               /\ timerqueue[b] = <<a>>
                               /\ hrtimer'[b].enqueued,
                     late |-> 0]]

CHistCall(b) ==
    LET a == fired[b].alarm
    IN  chist' = IF alarm[a].function # NULL /\ chist[a].found # "no"
                 THEN [chist EXCEPT ![a].late = @ + 1]
                 ELSE chist

BHistStart(a, start) ==
    bhist' = [bhist EXCEPT ![alarm[a].type].floor = Min2(@, start)]

BHistExpire(b) ==
    bhist' = [bhist EXCEPT
                ![b].max = Max2(@, fired'[b].expired),
                ![b].last = fired'[b].expired,
                ![b].floor = fired'[b].expired,
                ![b].under = @ \/ fired'[b].expired < bhist[b].floor]

DHistEnter(b) == dhist' = [dhist EXCEPT ![b] = [now |-> clock[b], calls |-> 0]]

DHistCall(b) ==
    dhist' = IF alarm[fired[b].alarm].function = NULL THEN dhist
             ELSE [dhist EXCEPT ![b].calls = @ + 1]

SHistEnter ==
    shist' = [SHistInit EXCEPT !.entry = freezer_delta,
                               !.done = IF rtcdev THEN "no" ELSE "nortc"]

SHistDelta == shist' = [shist EXCEPT !.seen = @ \cup {SuspendDelta}]

SHistFinish(rtc_now) ==
    shist' = [shist EXCEPT !.done = IF susp.min = 0 THEN "idle" ELSE "armed",
                           !.rtcnow = rtc_now]

FHistPublish(absexp, type) ==
    fhist' = [fhist EXCEPT !.pending = @ \cup {absexp - clock[type]}]

FHistEnter ==
    fhist' = [pending |-> {}, taken |-> fhist.pending,
              consumed |-> freezer_delta, hooks |-> TRUE]

NHistNsleep(flags, tsreq) ==
    nhist' = IF task'.pc = "do_nsleep"
             THEN [first |-> [type |-> task'.type, exp |-> task'.exp],
                   last |-> [type |-> task'.type, exp |-> task'.exp],
                   req |-> [abs |-> (flags = TIMER_ABSTIME), ts |-> tsreq,
                            now |-> clock[task'.type]],
                   cb |-> FALSE, wakes |-> 0]
             ELSE nhist

NHistRestart ==
    nhist' = [nhist EXCEPT !.last = [type |-> task'.type, exp |-> task'.exp],
                           !.cb = FALSE]

NHistCall(b) ==
    nhist' = IF fired[b].alarm = "n1" /\ data["n1"] # NULL
                /\ data'["n1"] = NULL
             THEN [nhist EXCEPT !.cb = TRUE]
             ELSE nhist

NHistWake ==
    /\ nhist.wakes < MaxWakes
    /\ nhist' = [nhist EXCEPT !.wakes = @ + 1]

\* alarmtimer_fired on base b has read the base time and not returned
DrainActive(b) == fired[b].pc \in {"loop", "call", "called"}

THistEnter(b) ==
    thist' = [thist EXCEPT ![b] =
                [THistInit EXCEPT
                   !.due = {a \in Alarms :
                              /\ Linked(timerqueue[b], a)
                              /\ alarm[a].period = 0
                              /\ alarm[a].expires <= clock[b]}]]

\* the alarms the running invocation on base b has dequeued
Taken(b) == thist[b].called \cup {fired[b].alarm}

THistCall(b) ==
    LET a == fired[b].alarm
    IN  thist' = IF alarm[a].function = NULL \/ thist[b].late THEN thist
                 ELSE [thist EXCEPT
                         ![b].called = @ \cup {a},
                         ![b].again = @ \cup (thist[b].called \cap {a})]

THistStart(a, start) ==
    LET b == alarm[a].type
    IN  thist' = IF ~DrainActive(b) \/ thist[b].late THEN thist
                 ELSE IF start <= fired[b].now
                 THEN [thist EXCEPT ![b] = [THistInit EXCEPT !.late = TRUE]]
                 ELSE [thist EXCEPT
                         ![b].skipped =
                             @ \cup ((thist[b].due \ Taken(b)) \cap {a})]

THistCancel(a) ==
    LET b == alarm[a].type
    IN  thist' = IF ~DrainActive(b) \/ thist[b].late THEN thist
                 ELSE [thist EXCEPT
                         ![b].skipped =
                             @ \cup ((thist[b].due \ Taken(b)) \cap {a})]

THistReturn(b) == thist' = [thist EXCEPT ![b] = THistInit]

\* ------------------------------------------------------- specifications
\* the alarms of the REALTIME base
CoreAlarms == {a \in Alarms \ SleepAlarms : InitType(a) = ALARM_REALTIME}

\* alarm_start, alarm_cancel and the dispatch, two alarms on one base
Next ==
    \/ \E d \in 1..MaxTime : ClockAdvance(d, MaxTime) /\ UNCHANGED <<ghostVars, callerVars>>
    \/ \E a \in CoreAlarms : \E start \in 0..MaxTime : \E period \in 0..MaxPeriod :
           alarm_start(a, start, period) /\ UNCHANGED <<ghostVars, callerVars>>
    \/ \E a \in CoreAlarms : alarm_cancel(a) /\ UNCHANGED <<ghostVars, callerVars>>
    \/ \E b \in TypeSet : hrtimer_run(b) /\ UNCHANGED <<ghostVars, callerVars>>
    \/ \E b \in TypeSet : alarmtimer_fired_enter(b) /\ UNCHANGED <<ghostVars, callerVars>>
    \/ \E b \in TypeSet : alarmtimer_fired_expire(b) /\ UNCHANGED <<ghostVars, callerVars>>
    \/ \E b \in TypeSet : alarmtimer_fired_call(b) /\ UNCHANGED <<ghostVars, callerVars>>
    \/ \E b \in TypeSet : alarmtimer_fired_relock(b) /\ UNCHANGED <<ghostVars, callerVars>>
    \/ \E b \in TypeSet : alarmtimer_fired_return(b) /\ UNCHANGED <<ghostVars, callerVars>>

Spec == Init /\ [][Next]_vars

\* the same program, with the firings of every alarm recorded
NextFirings ==
    \/ \E d \in 1..MaxTime : ClockAdvance(d, MaxTime) /\ UNCHANGED <<ghostVars, callerVars>>
    \/ \E a \in CoreAlarms : \E start \in 0..MaxTime : \E period \in 0..MaxPeriod :
           alarm_start(a, start, period) /\ HistStart(a, start)
               /\ UNCHANGED <<chist, bhist, dhist, shist, fhist, nhist, thist,
                         callerVars>>
    \/ \E a \in CoreAlarms :
           alarm_cancel(a) /\ HistCancel(a)
               /\ UNCHANGED <<chist, bhist, dhist, shist, fhist, nhist, thist,
                         callerVars>>
    \/ \E b \in TypeSet : hrtimer_run(b) /\ UNCHANGED <<ghostVars, callerVars>>
    \/ \E b \in TypeSet : alarmtimer_fired_enter(b) /\ UNCHANGED <<ghostVars, callerVars>>
    \/ \E b \in TypeSet : alarmtimer_fired_expire(b) /\ UNCHANGED <<ghostVars, callerVars>>
    \/ \E b \in TypeSet :
           alarmtimer_fired_call(b) /\ HistCall(b)
               /\ UNCHANGED <<chist, bhist, dhist, shist, fhist, nhist, thist,
                         callerVars>>
    \/ \E b \in TypeSet : alarmtimer_fired_relock(b) /\ UNCHANGED <<ghostVars, callerVars>>
    \/ \E b \in TypeSet :
           alarmtimer_fired_return(b) /\ HistReturn(b)
               /\ UNCHANGED <<chist, bhist, dhist, shist, fhist, nhist, thist,
                         callerVars>>

SpecFirings == Init /\ [][NextFirings]_vars

\* the same program, with what every alarm_cancel found recorded
NextCancel ==
    \/ \E d \in 1..MaxTime : ClockAdvance(d, MaxTime) /\ UNCHANGED <<ghostVars, callerVars>>
    \/ \E a \in CoreAlarms : \E start \in 0..MaxTime : \E period \in 0..MaxPeriod :
           alarm_start(a, start, period) /\ CHistStart(a)
               /\ UNCHANGED <<hist, bhist, dhist, shist, fhist, nhist, thist,
                         callerVars>>
    \/ \E a \in CoreAlarms :
           alarm_cancel(a) /\ CHistCancel(a)
               /\ UNCHANGED <<hist, bhist, dhist, shist, fhist, nhist, thist,
                         callerVars>>
    \/ \E b \in TypeSet : hrtimer_run(b) /\ UNCHANGED <<ghostVars, callerVars>>
    \/ \E b \in TypeSet : alarmtimer_fired_enter(b) /\ UNCHANGED <<ghostVars, callerVars>>
    \/ \E b \in TypeSet : alarmtimer_fired_expire(b) /\ UNCHANGED <<ghostVars, callerVars>>
    \/ \E b \in TypeSet :
           alarmtimer_fired_call(b) /\ CHistCall(b)
               /\ UNCHANGED <<hist, bhist, dhist, shist, fhist, nhist, thist,
                         callerVars>>
    \/ \E b \in TypeSet : alarmtimer_fired_relock(b) /\ UNCHANGED <<ghostVars, callerVars>>
    \/ \E b \in TypeSet : alarmtimer_fired_return(b) /\ UNCHANGED <<ghostVars, callerVars>>

SpecCancel == Init /\ [][NextCancel]_vars

\* the same program, with the order of each base's firings recorded
NextOrder ==
    \/ \E d \in 1..MaxTime : ClockAdvance(d, MaxTime) /\ UNCHANGED <<ghostVars, callerVars>>
    \/ \E a \in CoreAlarms : \E start \in 0..MaxTime : \E period \in 0..MaxPeriod :
           alarm_start(a, start, period) /\ BHistStart(a, start)
               /\ UNCHANGED <<hist, chist, dhist, shist, fhist, nhist, thist,
                         callerVars>>
    \/ \E a \in CoreAlarms : alarm_cancel(a) /\ UNCHANGED <<ghostVars, callerVars>>
    \/ \E b \in TypeSet : hrtimer_run(b) /\ UNCHANGED <<ghostVars, callerVars>>
    \/ \E b \in TypeSet : alarmtimer_fired_enter(b) /\ UNCHANGED <<ghostVars, callerVars>>
    \/ \E b \in TypeSet :
           alarmtimer_fired_expire(b) /\ BHistExpire(b)
               /\ UNCHANGED <<hist, chist, dhist, shist, fhist, nhist, thist,
                         callerVars>>
    \/ \E b \in TypeSet : alarmtimer_fired_call(b) /\ UNCHANGED <<ghostVars, callerVars>>
    \/ \E b \in TypeSet : alarmtimer_fired_relock(b) /\ UNCHANGED <<ghostVars, callerVars>>
    \/ \E b \in TypeSet : alarmtimer_fired_return(b) /\ UNCHANGED <<ghostVars, callerVars>>

SpecOrder == Init /\ [][NextOrder]_vars

\* one periodic alarm, started once with expiry 10 and period 3, and drains
\* that run as late as the clock allows
NextCatchup ==
    \/ \E d \in 1..MaxCatchupTime :
           ClockAdvance(d, MaxCatchupTime) /\ UNCHANGED <<ghostVars, callerVars>>
    \/ /\ hist["a1"].life = "never"
       /\ alarm_start("a1", 10, 3) /\ HistStart("a1", 10)
       /\ UNCHANGED <<chist, bhist, dhist, shist, fhist, nhist, thist,
                         callerVars>>
    \/ \E b \in TypeSet : hrtimer_run(b) /\ UNCHANGED <<ghostVars, callerVars>>
    \/ \E b \in TypeSet :
           alarmtimer_fired_enter(b) /\ DHistEnter(b)
               /\ UNCHANGED <<hist, chist, bhist, shist, fhist, nhist, thist,
                         callerVars>>
    \/ \E b \in TypeSet : alarmtimer_fired_expire(b) /\ UNCHANGED <<ghostVars, callerVars>>
    \/ \E b \in TypeSet :
           alarmtimer_fired_call(b) /\ HistCall(b) /\ DHistCall(b)
               /\ UNCHANGED <<chist, bhist, shist, fhist, nhist, thist,
                         callerVars>>
    \/ \E b \in TypeSet : alarmtimer_fired_relock(b) /\ UNCHANGED <<ghostVars, callerVars>>
    \/ \E b \in TypeSet :
           alarmtimer_fired_return(b) /\ HistReturn(b)
               /\ UNCHANGED <<chist, bhist, dhist, shist, fhist, nhist, thist,
                         callerVars>>

SpecCatchup == Init /\ [][NextCatchup]_vars

\* the suspend hook between dispatches, with one alarm on each base, the
\* freezer delta and the rtc; alarm_start, alarm_cancel, alarmtimer_freezerset
\* and the clocks run between the steps of the hook
SuspendAlarms == {"a1", "a3"}

NextSuspend ==
    \/ \E d \in 1..MaxTime : ClockAdvance(d, MaxTime) /\ UNCHANGED <<ghostVars, callerVars>>
    \/ \E a \in SuspendAlarms : \E start \in 0..MaxTime :
           alarm_start(a, start, 0) /\ UNCHANGED <<ghostVars, callerVars>>
    \/ \E a \in SuspendAlarms : alarm_cancel(a) /\ UNCHANGED <<ghostVars, callerVars>>
    \/ \E found \in BOOLEAN :
           alarmtimer_get_rtcdev(found) /\ UNCHANGED <<ghostVars, callerVars>>
    \/ \E absexp \in 0..MaxFreezerExp : \E type \in TypeSet :
           alarmtimer_freezerset(absexp, type) /\ UNCHANGED <<ghostVars, callerVars>>
    \/ alarmtimer_suspend_enter /\ SHistEnter
           /\ UNCHANGED <<hist, chist, bhist, dhist, fhist, nhist, thist,
                         callerVars>>
    \/ alarmtimer_suspend_peek /\ UNCHANGED <<ghostVars, callerVars>>
    \/ alarmtimer_suspend_delta /\ SHistDelta
           /\ UNCHANGED <<hist, chist, bhist, dhist, fhist, nhist, thist,
                         callerVars>>
    \/ \E rtc_now \in 0..MaxRtc :
           alarmtimer_suspend_finish(rtc_now) /\ SHistFinish(rtc_now)
               /\ UNCHANGED <<hist, chist, bhist, dhist, fhist, nhist, thist,
                         callerVars>>

SpecSuspend == Init /\ [][NextSuspend]_vars

\* tasks publishing freezer deltas while the suspend hook runs
NextFreezer ==
    \/ \E d \in 1..MaxTime :
           ClockAdvance(d, MaxTime) /\ UNCHANGED <<ghostVars, callerVars>>
    \/ \E start \in 0..MaxTime :
           alarm_start("a1", start, 0) /\ UNCHANGED <<ghostVars, callerVars>>
    \/ \E found \in BOOLEAN :
           alarmtimer_get_rtcdev(found) /\ UNCHANGED <<ghostVars, callerVars>>
    \/ \E absexp \in 0..MaxFreezerExp : \E type \in TypeSet :
           alarmtimer_freezerset(absexp, type) /\ FHistPublish(absexp, type)
               /\ UNCHANGED <<hist, chist, bhist, dhist, shist, nhist, thist,
                         callerVars>>
    \/ alarmtimer_suspend_enter /\ FHistEnter
           /\ UNCHANGED <<hist, chist, bhist, dhist, shist, nhist, thist,
                         callerVars>>
    \/ alarmtimer_suspend_peek /\ UNCHANGED <<ghostVars, callerVars>>
    \/ alarmtimer_suspend_delta /\ UNCHANGED <<ghostVars, callerVars>>
    \/ \E rtc_now \in 0..MaxRtc :
           alarmtimer_suspend_finish(rtc_now)
               /\ UNCHANGED <<ghostVars, callerVars>>

SpecFreezer == Init /\ [][NextFreezer]_vars

\* a task with the capability, not being frozen, that calls
\* alarm_timer_nsleep on an alarm clock once and is restarted as
\* often as it asks for; an rtc present, signals, other wake-ups, and the
\* drains of the bases
NsleepOther == <<hist, chist, bhist, dhist, shist, fhist, thist, facade>>

NextNsleep ==
    \/ \E d \in 1..MaxTime :
           ClockAdvance(d, MaxTime) /\ UNCHANGED <<ghostVars, callerVars>>
    \/ \E which_clock \in {CLOCK_REALTIME_ALARM, CLOCK_BOOTTIME_ALARM} :
       \E flags \in {"0", TIMER_ABSTIME} :
       \E sec \in {0, KTIME_SEC_MAX} : \E nsec \in 0..MaxSleep :
       \E rmtp \in BOOLEAN :
           /\ nhist.first.type = NULL
           /\ alarm_timer_nsleep(TRUE, TRUE, which_clock, flags,
                                 [tv_sec |-> sec, tv_nsec |-> nsec], rmtp)
           /\ NHistNsleep(flags, [tv_sec |-> sec, tv_nsec |-> nsec])
           /\ UNCHANGED NsleepOther
    \/ alarm_timer_nsleep_restart /\ NHistRestart /\ UNCHANGED NsleepOther
    \/ alarmtimer_do_nsleep_enter /\ UNCHANGED <<ghostVars, facade>>
    \/ alarmtimer_do_nsleep_set_state /\ UNCHANGED <<ghostVars, facade>>
    \/ alarmtimer_do_nsleep_start /\ UNCHANGED <<ghostVars, facade>>
    \/ alarmtimer_do_nsleep_test /\ UNCHANGED <<ghostVars, facade>>
    \/ schedule /\ UNCHANGED <<ghostVars, facade>>
    \/ alarmtimer_do_nsleep_cancel /\ UNCHANGED <<ghostVars, facade>>
    \/ alarmtimer_do_nsleep_while /\ UNCHANGED <<ghostVars, facade>>
    \/ \E fault \in BOOLEAN :
           alarm_timer_nsleep_out(FALSE, fault)
               /\ UNCHANGED <<ghostVars, facade>>
    \/ \E fault \in BOOLEAN :
           alarm_timer_nsleep_restart_out(FALSE, fault)
               /\ UNCHANGED <<ghostVars, facade>>
    \/ signal_deliver /\ UNCHANGED <<ghostVars, facade>>
    \/ wake_up_process /\ NHistWake /\ UNCHANGED NsleepOther
    \/ \E b \in TypeSet : hrtimer_run(b) /\ UNCHANGED <<ghostVars, callerVars>>
    \/ \E b \in TypeSet :
           alarmtimer_fired_enter(b) /\ UNCHANGED <<ghostVars, callerVars>>
    \/ \E b \in TypeSet :
           alarmtimer_fired_expire(b) /\ UNCHANGED <<ghostVars, callerVars>>
    \/ \E b \in TypeSet :
           alarmtimer_fired_call(b) /\ Function(b) /\ NHistCall(b)
               /\ UNCHANGED NsleepOther
    \/ \E b \in TypeSet :
           alarmtimer_fired_relock(b) /\ UNCHANGED <<ghostVars, callerVars>>
    \/ \E b \in TypeSet :
           alarmtimer_fired_return(b) /\ UNCHANGED <<ghostVars, callerVars>>

SpecNsleep == Init /\ [][NextNsleep]_vars

\* the steps of the task inside alarmtimer_do_nsleep
SleeperStep ==
    /\ \/ alarmtimer_do_nsleep_enter
       \/ alarmtimer_do_nsleep_set_state
       \/ alarmtimer_do_nsleep_start
       \/ alarmtimer_do_nsleep_test
       \/ schedule
       \/ alarmtimer_do_nsleep_cancel
       \/ alarmtimer_do_nsleep_while
    /\ UNCHANGED <<ghostVars, facade>>

\* the steps of the hrtimer core and of alarmtimer_fired on base b
DrainStep(b) ==
    \/ hrtimer_run(b) /\ UNCHANGED <<ghostVars, callerVars>>
    \/ alarmtimer_fired_enter(b) /\ UNCHANGED <<ghostVars, callerVars>>
    \/ alarmtimer_fired_expire(b) /\ UNCHANGED <<ghostVars, callerVars>>
    \/ alarmtimer_fired_call(b) /\ Function(b) /\ NHistCall(b)
           /\ UNCHANGED NsleepOther
    \/ alarmtimer_fired_relock(b) /\ UNCHANGED <<ghostVars, callerVars>>
    \/ alarmtimer_fired_return(b) /\ UNCHANGED <<ghostVars, callerVars>>

\* the nsleep behaviours in which a runnable task gets the cpu and an
\* expired hrtimer gets its interrupt: the steps of one thread exclude one
\* another, so weak fairness of the thread is weak fairness of each step
SpecNsleepFair ==
    /\ Init
    /\ [][NextNsleep]_vars
    /\ WF_vars(SleeperStep)
    /\ \A b \in TypeSet : WF_vars(DrainStep(b))

\* one posix timer on CLOCK_REALTIME_ALARM, an rtc present, its owner holding
\* the capability, and the drains of the bases
TimerAlarms == {"a1"}

NextTimer ==
    \/ \E d \in 1..MaxTime :
           ClockAdvance(d, MaxTime) /\ UNCHANGED <<ghostVars, callerVars>>
    \/ \E a \in TimerAlarms :
       \E which_clock \in {CLOCK_REALTIME_ALARM} :
           alarm_timer_create(TRUE, TRUE, a, which_clock)
               /\ UNCHANGED ghostVars
    \/ \E a \in TimerAlarms :
       \E value \in 0..MaxValue : \E sec \in {0, 1} :
       \E nsec \in {0, MinInterval - 1, MinInterval} :
       \E old_setting \in BOOLEAN :
           alarm_timer_set(TRUE, a,
                           [it_interval |-> [tv_sec |-> sec, tv_nsec |-> nsec],
                            it_value |-> [tv_sec |-> 0, tv_nsec |-> value]],
                           old_setting)
               /\ UNCHANGED ghostVars
    \/ \E a \in TimerAlarms : alarm_timer_get(a) /\ UNCHANGED ghostVars
    \/ \E a \in TimerAlarms : alarm_timer_del(TRUE, a) /\ UNCHANGED ghostVars
    \/ \E b \in TypeSet : hrtimer_run(b) /\ UNCHANGED <<ghostVars, callerVars>>
    \/ \E b \in TypeSet :
           alarmtimer_fired_enter(b) /\ UNCHANGED <<ghostVars, callerVars>>
    \/ \E b \in TypeSet :
           alarmtimer_fired_expire(b) /\ UNCHANGED <<ghostVars, callerVars>>
    \/ \E b \in TypeSet :
           alarmtimer_fired_call(b) /\ UNCHANGED <<ghostVars, callerVars>>
    \/ \E b \in TypeSet :
           alarmtimer_fired_relock(b) /\ UNCHANGED <<ghostVars, callerVars>>
    \/ \E b \in TypeSet :
           alarmtimer_fired_return(b) /\ UNCHANGED <<ghostVars, callerVars>>

SpecTimer == Init /\ [][NextTimer]_vars

\* the posix clock interfaces at their boundary: called for any clockid and
\* for a k_itimer whether or not alarm_timer_create has set it up, before
\* and after an rtc is found (by alarm_clock_getres, which looks for one
\* like the others), by callers with and without the capability;
\* an in-kernel user starting an alarm of its own; a task that sleeps until
\* a signal; no dispatch timer expires
FacadeOther == <<hist, chist, bhist, dhist, shist, fhist, thist>>

NextFacade ==
    \/ \E d \in 1..MaxTime :
           ClockAdvance(d, MaxTime) /\ UNCHANGED <<ghostVars, callerVars>>
    \/ alarm_start("a2", 0, 0) /\ UNCHANGED <<ghostVars, callerVars>>
    \/ \E found \in BOOLEAN : \E which_clock \in ClockIds :
           alarm_clock_getres(found, which_clock) /\ UNCHANGED ghostVars
    \/ \E which_clock \in ClockIds :
           alarm_clock_get(FALSE, which_clock) /\ UNCHANGED ghostVars
    \/ \E capable \in BOOLEAN :
       \E a \in TimerAlarms : \E which_clock \in ClockIds :
           alarm_timer_create(FALSE, capable, a, which_clock)
               /\ UNCHANGED ghostVars
    \/ \E a \in TimerAlarms :
           alarm_timer_set(FALSE, a,
                           [it_interval |-> [tv_sec |-> 0, tv_nsec |-> 0],
                            it_value |-> [tv_sec |-> 0, tv_nsec |-> 1]],
                           FALSE)
               /\ UNCHANGED ghostVars
    \/ \E a \in TimerAlarms : alarm_timer_get(a) /\ UNCHANGED ghostVars
    \/ \E a \in TimerAlarms :
           alarm_timer_del(FALSE, a) /\ UNCHANGED ghostVars
    \/ \E capable \in BOOLEAN : \E which_clock \in ClockIds :
           /\ nhist.first.type = NULL
           /\ alarm_timer_nsleep(FALSE, capable, which_clock, TIMER_ABSTIME,
                                 [tv_sec |-> 0, tv_nsec |-> 0], FALSE)
           /\ NHistNsleep(TIMER_ABSTIME, [tv_sec |-> 0, tv_nsec |-> 0])
           /\ facade' = Called("nsleep", which_clock, NULL, capable,
                               task'.ret)
           /\ UNCHANGED FacadeOther
    \/ alarmtimer_do_nsleep_enter /\ UNCHANGED <<ghostVars, facade>>
    \/ alarmtimer_do_nsleep_set_state /\ UNCHANGED <<ghostVars, facade>>
    \/ alarmtimer_do_nsleep_start /\ UNCHANGED <<ghostVars, facade>>
    \/ alarmtimer_do_nsleep_test /\ UNCHANGED <<ghostVars, facade>>
    \/ schedule /\ UNCHANGED <<ghostVars, facade>>
    \/ alarmtimer_do_nsleep_cancel /\ UNCHANGED <<ghostVars, facade>>
    \/ alarmtimer_do_nsleep_while /\ UNCHANGED <<ghostVars, facade>>
    \/ alarm_timer_nsleep_out(FALSE, FALSE) /\ UNCHANGED <<ghostVars, facade>>
    \/ signal_deliver /\ UNCHANGED <<ghostVars, facade>>

SpecFacade == Init /\ [][NextFacade]_vars

\* everything that takes a lock: threads starting and cancelling alarms,
\* drains whose callbacks start and cancel alarms of the base being
\* drained, tasks publishing freezer deltas, and the suspend hook
NextLocks ==
    \/ \E d \in 1..MaxTime :
           ClockAdvance(d, MaxTime) /\ UNCHANGED <<ghostVars, callerVars>>
    \/ \E a \in CoreAlarms : \E start \in 0..MaxValue :
           alarm_start(a, start, 0) /\ UNCHANGED <<ghostVars, callerVars>>
    \/ \E a \in CoreAlarms :
           alarm_cancel(a) /\ UNCHANGED <<ghostVars, callerVars>>
    \/ \E b \in TypeSet : \E start \in 0..MaxValue :
           /\ fired[b].pc = "call"
           /\ alarm_start(fired[b].alarm, start, 0)
           /\ UNCHANGED <<ghostVars, callerVars>>
    \/ \E b \in TypeSet : \E a \in CoreAlarms :
           /\ fired[b].pc = "call"
           /\ alarm[a].type = b
           /\ alarm_cancel(a)
           /\ UNCHANGED <<ghostVars, callerVars>>
    \/ \E b \in TypeSet : hrtimer_run(b) /\ UNCHANGED <<ghostVars, callerVars>>
    \/ \E b \in TypeSet :
           alarmtimer_fired_enter(b) /\ UNCHANGED <<ghostVars, callerVars>>
    \/ \E b \in TypeSet :
           alarmtimer_fired_expire(b) /\ UNCHANGED <<ghostVars, callerVars>>
    \/ \E b \in TypeSet :
           alarmtimer_fired_call(b) /\ UNCHANGED <<ghostVars, callerVars>>
    \/ \E b \in TypeSet :
           alarmtimer_fired_relock(b) /\ UNCHANGED <<ghostVars, callerVars>>
    \/ \E b \in TypeSet :
           alarmtimer_fired_return(b) /\ UNCHANGED <<ghostVars, callerVars>>
    \/ alarmtimer_get_rtcdev(TRUE) /\ UNCHANGED <<ghostVars, callerVars>>
    \/ alarmtimer_freezerset(MaxFreezerExp, ALARM_REALTIME)
           /\ UNCHANGED <<ghostVars, callerVars>>
    \/ alarmtimer_suspend_enter /\ UNCHANGED <<ghostVars, callerVars>>
    \/ alarmtimer_suspend_peek /\ UNCHANGED <<ghostVars, callerVars>>
    \/ alarmtimer_suspend_delta /\ UNCHANGED <<ghostVars, callerVars>>
    \/ alarmtimer_suspend_finish(0) /\ UNCHANGED <<ghostVars, callerVars>>

SpecLocks == Init /\ [][NextLocks]_vars

\* the histories a drain's record leaves alone
DrainOther == <<hist, chist, bhist, dhist, shist, fhist, nhist>>

\* the steps of one invocation of alarmtimer_fired on base b
FiredStep(b) ==
    \/ alarmtimer_fired_enter(b) /\ THistEnter(b)
           /\ UNCHANGED <<DrainOther, callerVars>>
    \/ alarmtimer_fired_expire(b) /\ UNCHANGED <<ghostVars, callerVars>>
    \/ alarmtimer_fired_call(b) /\ THistCall(b)
           /\ UNCHANGED <<DrainOther, callerVars>>
    \/ alarmtimer_fired_relock(b) /\ UNCHANGED <<ghostVars, callerVars>>
    \/ alarmtimer_fired_return(b) /\ THistReturn(b)
           /\ UNCHANGED <<DrainOther, callerVars>>

\* alarm_start, alarm_cancel and the dispatch on one base, with what each
\* invocation of alarmtimer_fired does recorded; an alarm_start or
\* alarm_cancel while the function of an alarm is being called is that
\* function's or another thread's
NextDrain ==
    \/ \E d \in 1..MaxTime :
           ClockAdvance(d, MaxTime) /\ UNCHANGED <<ghostVars, callerVars>>
    \/ \E a \in CoreAlarms : \E start \in 0..MaxTime :
       \E period \in 0..MaxPeriod :
           alarm_start(a, start, period) /\ THistStart(a, start)
               /\ UNCHANGED <<DrainOther, callerVars>>
    \/ \E a \in CoreAlarms :
           alarm_cancel(a) /\ THistCancel(a)
               /\ UNCHANGED <<DrainOther, callerVars>>
    \/ \E b \in TypeSet : hrtimer_run(b) /\ UNCHANGED <<ghostVars, callerVars>>
    \/ \E b \in TypeSet : FiredStep(b)

\* the behaviours in which an invocation of alarmtimer_fired, once called,
\* keeps running: the interrupt handler is not preempted, the function of
\* an alarm returns, and base->lock is free between any two steps of the
\* other threads
SpecDrainFair ==
    /\ Init
    /\ [][NextDrain]_vars
    /\ \A b \in TypeSet : WF_vars(FiredStep(b))

\* ------------------------------------------------------------------ C1
Armed(b) == hrtimer[b].enqueued
Quiescent(b) == lock[b] = "free" /\ fired[b].pc = "idle"

\* C1: for each base whose lock is not held, after any interleaving of
\* alarm_start, alarm_cancel and completed dispatch drains, the dispatch
\* timer is armed if and only if the queue is non-empty, and when armed its
\* programmed expiry is the expiry of the queue head.  The states looked at
\* are the lock-free ones in which no drain of the base is under way, so a
\* violation of this formula is a violation of the claim.
C1_DispatchTimerTracksHead ==
    \A b \in TypeSet :
        Quiescent(b) =>
            /\ Armed(b) <=> timerqueue[b] # <<>>
            /\ Armed(b) =>
                   hrtimer[b].expires = alarm[Head(timerqueue[b])].expires

\* ------------------------------------------------------------------ C2
Occurrences(q, a) == Cardinality({i \in 1..Len(q) : q[i] = a})

\* C2: whenever no base lock is held, every alarm is linked at most once,
\* only in the queue of the base its type selects, and is linked there if
\* and only if its enabled flag is set.
C2_LinkedIffEnabled ==
    (\A b \in TypeSet : lock[b] = "free") =>
        \A a \in Alarms :
            /\ Occurrences(timerqueue[alarm[a].type], a) <= 1
            /\ \A b \in TypeSet :
                   b # alarm[a].type => Occurrences(timerqueue[b], a) = 0
            /\ alarm[a].enabled <=> Linked(timerqueue[alarm[a].type], a)

\* a drain has re-queued a periodic alarm and dequeued a one-shot one,
\* both on the same base, and a cancel has unlinked neither
C2_Witness ==
    /\ \A b \in TypeSet : lock[b] = "free"
    /\ \E a, x \in Alarms :
           /\ a # x
           /\ alarm[a].type = alarm[x].type
           /\ alarm[a].period > 0 /\ alarm[a].enabled
           /\ fired[alarm[a].type].pc = "called"
           /\ fired[alarm[a].type].alarm = x
           /\ alarm[x].period = 0 /\ ~alarm[x].enabled
           /\ timerqueue[alarm[a].type] = <<a>>

\* ------------------------------------------------------------------ C3
Pending(found) == found \in {"inflight", "requeued"}

\* C3 as stated: once alarm_cancel(A) has returned, A.enabled is false and
\* A's callback is not invoked again (until A is started again).
C3_NoCallAfterCancel ==
    \A a \in Alarms :
        chist[a].found # "no" =>
            /\ ~alarm[a].enabled
            /\ chist[a].late = 0

\* C3 amended: once alarm_cancel(A) has returned, and until A is started
\* again, A.enabled is false and A is not linked, and A's callback is
\* invoked at most once more, and only when the drain had dequeued A and
\* not yet called its function when the cancel took the lock.
C3_AtMostThePendingCall ==
    \A a \in Alarms :
        chist[a].found # "no" =>
            /\ ~alarm[a].enabled
            /\ ~Linked(timerqueue[alarm[a].type], a)
            /\ chist[a].late <= IF Pending(chist[a].found) THEN 1 ELSE 0

\* a periodic alarm was cancelled between its re-queueing and its callback,
\* the callback ran, and the drain has returned
C3_Witness ==
    \E a \in Alarms :
        /\ chist[a].found = "requeued"
        /\ chist[a].late = 1
        /\ fired[alarm[a].type].pc = "idle"
        /\ lock[alarm[a].type] = "free"

\* ------------------------------------------------------------------ C4
\* C4: when alarm_cancel(A) takes the lock while A is linked and the drain
\* has not dequeued it, A's callback is not invoked after the cancel (until
\* A is started again), and if A was alone in the queue the dispatch timer
\* is disarmed after the cancel; no callback runs before the base clock has
\* reached the expiry it is for.
C4_CancelOfLinkedSuppresses ==
    /\ \A a \in Alarms :
           chist[a].found = "linked" =>
               /\ chist[a].late = 0
               /\ ~chist[a].armed
    /\ \A b \in TypeSet :
           fired[b].pc \in {"call", "called"} => fired[b].expired <= clock[b]

\* ------------------------------------------------------------------ C5
\* C5: a one-shot alarm started once and neither restarted nor cancelled has
\* its callback invoked at most once and by the first drain that reads a
\* base time >= its expiry (no drain returns leaving it behind); it is
\* enabled and linked exactly until that drain dequeues it; and once it has
\* fired and that drain has returned, if it left nothing queued on the base
\* it reported stop and left the dispatch timer disarmed.
C5_OneShotFiresOnce ==
    \A a \in Alarms :
        LET b == alarm[a].type
        IN  (hist[a].life = "once" /\ alarm[a].period = 0) =>
                /\ hist[a].fires <= 1
                /\ ~hist[a].missed
                /\ alarm[a].enabled <=> (hist[a].fires = 0 /\ ~InFlight(a))
                /\ alarm[a].enabled <=> Linked(timerqueue[b], a)
                /\ hist[a].after # "armed"

\* ------------------------------------------------------------------ C6
\* the firings the drain has dequeued of an alarm started once
Dequeued(a) == hist[a].fires + IF InFlight(a) THEN 1 ELSE 0

\* C6: a periodic alarm started once with expiry e0 and period p > 0, and
\* neither restarted nor cancelled, holds expiry e0 + k*p once the drain has
\* dequeued it k times, so that is what it holds when its callback is
\* invoked for the k-th time, whatever base time the drains read; the
\* expiry it is re-queued with is the expiry it fired for plus the period.
C6_PeriodicPhase ==
    \A a \in Alarms :
        LET b == alarm[a].type
        IN  (hist[a].life = "once" /\ alarm[a].period > 0) =>
                /\ alarm[a].expires =
                       hist[a].e0 + Dequeued(a) * alarm[a].period
                /\ InFlight(a) =>
                       alarm[a].expires = fired[b].expired + alarm[a].period

\* the callback of a periodic alarm has been invoked for the second time,
\* by a drain that read a base time past the expiry it fired for
C6_Witness ==
    \E a \in Alarms :
        /\ hist[a].life = "once" /\ alarm[a].period > 0
        /\ hist[a].fires = 2
        /\ fired[alarm[a].type].pc = "called"
        /\ fired[alarm[a].type].alarm = a
        /\ fired[alarm[a].type].now > fired[alarm[a].type].expired

\* ------------------------------------------------------------------ C7
\* the first drain of the base of a1 has returned
FirstDrainReturned ==
    /\ hist["a1"].life = "once"
    /\ dhist[alarm["a1"].type].now >= 0
    /\ Quiescent(alarm["a1"].type)
    /\ dhist[alarm["a1"].type].calls = hist["a1"].fires

\* C7 as stated: with a periodic alarm started with expiry 10 and period 3
\* alone on its base, a single drain that reads base time 19 invokes the
\* callback exactly three times and leaves the alarm enabled with expiry 19.
C7_ThreeCallsAt19 ==
    (FirstDrainReturned /\ dhist[alarm["a1"].type].now = 19) =>
        /\ dhist[alarm["a1"].type].calls = 3
        /\ alarm["a1"].expires = 19
        /\ alarm["a1"].enabled

\* C7 amended: the drain treats an expiry equal to the base time it read as
\* expired, so a single drain that reads base time 19 invokes the callback
\* exactly four times (for expiries 10, 13, 16 and 19) and leaves the alarm
\* enabled with expiry 22.  Generally the first drain, reading now, invokes
\* the callback once per expiry e0 + k*p <= now and leaves the alarm enabled
\* with the first expiry > now.
C7_CallsPerExpiredExpiry ==
    LET b == alarm["a1"].type
        now == dhist[b].now
        calls == dhist[b].calls
    IN  FirstDrainReturned =>
            /\ alarm["a1"].enabled
            /\ alarm["a1"].expires > now
            /\ alarm["a1"].expires - alarm["a1"].period <= now
            /\ alarm["a1"].expires = hist["a1"].e0 + calls * alarm["a1"].period
            /\ now = 19 => (calls = 4 /\ alarm["a1"].expires = 22)

\* the first drain read base time 19 and has returned
C7_Witness ==
    /\ FirstDrainReturned
    /\ dhist[alarm["a1"].type].now = 19
    /\ dhist[alarm["a1"].type].calls = 4

\* ------------------------------------------------------------------ C8
\* C8 as stated: on each base, no firing for an expiry e is delivered after
\* a firing for an expiry greater than e, so the expiry of the last firing
\* is the largest expiry fired for so far.
C8_NonDecreasingFirings ==
    \A b \in TypeSet : bhist[b].last = bhist[b].max

\* C8 amended: on each base, the expiry a firing is for is never below both
\* the expiry of the firing before it and every expiry handed to alarm_start
\* since that firing; firings go out of order only for an alarm started, after
\* a firing, with an expiry below the one that firing was for.
C8_NonDecreasingUnlessStartedBelow ==
    \A b \in TypeSet : ~bhist[b].under

\* a firing was delivered for an expiry below that of an earlier firing
C8_Witness ==
    \E b \in TypeSet :
        /\ bhist[b].last < bhist[b].max
        /\ fired[b].pc = "called"

\* ------------------------------------------------------------------ C9
\* the deltas the hook had to choose from: the freezer delta present at
\* entry if non-zero, and one per base whose queue had a head
Candidates == (IF shist.entry # 0 THEN {shist.entry} ELSE {}) \cup shist.seen

Minimum(S) == CHOOSE x \in S : \A y \in S : x <= y

\* C9: when the suspend hook has run with an rtc selected and there was a
\* freezer delta or a queued alarm, it has armed the rtc timer at
\* rtc_now + m, m the minimum of the non-zero freezer delta present at
\* entry and the deltas head_expiry - base.now() of the bases with a head.
C9_SuspendArmsEarliest ==
    (shist.done \in {"idle", "armed"} /\ Candidates # {}) =>
        /\ shist.done = "armed"
        /\ rtctimer.armed
        /\ rtctimer.expires = shist.rtcnow + Minimum(Candidates)

\* ----------------------------------------------------------------- C10
\* C10: when the suspend hook, with an rtc selected, has returned at
\* min == 0, no base had an alarm queued, no freezer delta had been
\* published, and the rtc timer is not armed.
C10_IdleReturnMeansNothingPending ==
    shist.done = "idle" =>
        /\ shist.seen = {}
        /\ shist.entry = 0
        /\ ~rtctimer.armed

\* ----------------------------------------------------------------- C11
\* C11: the value the suspend hook takes from the freezer_delta global is
\* the minimum of the deltas published since the hook last took it, zero
\* if there were none; and the hook leaves the global at zero, so it is
\* zero for as long as nothing has been published since.
C11_FreezerDeltaIsMinimumPublished ==
    /\ fhist.hooks =>
           fhist.consumed =
               IF fhist.taken = {} THEN 0 ELSE Minimum(fhist.taken)
    /\ fhist.pending = {} => freezer_delta = 0

\* ----------------------------------------------------------------- C12
\* alarmtimer_do_nsleep returns in this step
DoNsleepReturns == task.pc = "while" /\ task'.pc = "out"

\* C12: whenever alarmtimer_do_nsleep returns, it returns "fired" exactly
\* if the wakeup callback ran and cleared alarm.data during that call; if
\* it returns "interrupted", a signal is pending and alarm.data is still
\* set; and either way the alarm is then in no base's queue and not
\* enabled.
C12_SleepLoopResult ==
    [][DoNsleepReturns =>
          /\ task'.slept <=> nhist'.cb
          /\ ~task'.slept => (task'.sig /\ data'["n1"] # NULL)
          /\ \A b \in TypeSet : ~Linked(timerqueue'[b], "n1")
          /\ ~alarm'["n1"].enabled]_vars

\* the loop has returned "interrupted" after going round a second time for
\* a wake-up that was neither the callback's nor a signal's
C12_Witness ==
    /\ task.pc = "out"
    /\ ~task.slept
    /\ nhist.wakes > 0

\* ----------------------------------------------------------------- C13
\* alarm_timer_nsleep or alarm_timer_nsleep_restart returns in this step
NsleepReturns == task.pc = "out" /\ task'.pc = "idle"

\* the expiry of a relative request is the base's time at entry plus the
\* request, KTIME_MAX where that is out of range
EntryExpiry ==
    LET r == nhist.req
        k == r.ts.tv_sec * NSEC_PER_SEC + r.ts.tv_nsec
    IN  (nhist.first.type # NULL /\ ~r.abs) =>
            nhist.first.exp =
                IF r.ts.tv_sec >= KTIME_SEC_MAX \/ k > KTIME_MAX - r.now
                THEN KTIME_MAX
                ELSE r.now + k

\* every sleep since the call was on the base and for the expiry of the
\* first one
SameDeadline == nhist.last = nhist.first

\* an interrupted absolute sleep returns -ERESTARTNOHAND and leaves the
\* restart block alone
AbsoluteNotRestarted ==
    (NsleepReturns /\ ~task.slept /\ task.abs) =>
        /\ task'.ret = "ERESTARTNOHAND"
        /\ task'.restart = task.restart

\* C13 as stated: restart preserves the deadline. A relative sleep's expiry
\* is computed once, at entry, as now + request, saturating; every
\* interrupted relative sleep returns -ERESTART_RESTARTBLOCK with type,
\* expiry and rmtp in the restart block; every restart sleeps on the same
\* base for the same expiry; an interrupted absolute sleep returns
\* -ERESTARTNOHAND and registers no restart block.
C13_RestartKeepsDeadline ==
    [][/\ EntryExpiry' /\ SameDeadline'
       /\ (NsleepReturns /\ task'.ret = "ERESTART_RESTARTBLOCK") =>
              task'.restart = [fn |-> "alarm_timer_nsleep_restart",
                               clockid |-> nhist.first.type,
                               expires |-> nhist.first.exp,
                               rmtp |-> task.rmtp]
       /\ AbsoluteNotRestarted
       /\ (NsleepReturns /\ ~task.slept /\ ~task.abs) =>
              task'.ret = "ERESTART_RESTARTBLOCK"]_vars

\* C13 amended: the same, except that an interrupted relative sleep with a
\* remaining-time pointer returns 0 when no time remains and -EFAULT when
\* the remaining time cannot be copied out, and asks for a restart
\* otherwise.
C13_RestartKeepsDeadlineIfTimeRemains ==
    [][/\ EntryExpiry' /\ SameDeadline'
       /\ (NsleepReturns /\ task'.ret = "ERESTART_RESTARTBLOCK") =>
              task'.restart = [fn |-> "alarm_timer_nsleep_restart",
                               clockid |-> nhist.first.type,
                               expires |-> nhist.first.exp,
                               rmtp |-> task.rmtp]
       /\ AbsoluteNotRestarted
       /\ (NsleepReturns /\ ~task.slept /\ ~task.abs) =>
              \/ task'.ret = "ERESTART_RESTARTBLOCK"
              \/ /\ task.rmtp
                 /\ task'.ret = "0"
                 /\ task.exp - clock[task.type] <= 0
              \/ /\ task.rmtp
                 /\ task'.ret = "EFAULT"
                 /\ task.exp - clock[task.type] > 0]_vars

\* a restarted sleep has been interrupted again
C13_Witness ==
    /\ task.pc = "out"
    /\ task.restarted
    /\ ~task.slept
    /\ clock[task.type] > nhist.req.now

\* ----------------------------------------------------------------- C14
\* C14: once alarm_timer_set has returned 0 for a timer, the period of its
\* alarm is at least 100 microseconds, and is the requested interval if
\* that was at least 100 microseconds; and the it_interval a following
\* alarm_timer_get reports is that period.
C14_IntervalFloor ==
    /\ \A a \in facade.set : alarm[a].period >= MinInterval
    /\ (facade.op = "timer_set" /\ facade.ret = "0"
           /\ facade.interval >= MinInterval) =>
           alarm[facade.timer].period = facade.interval
    /\ (facade.op = "timer_get" /\ facade.timer \in facade.set) =>
           /\ timespec_to_ktime(facade.out.it_interval)
                  = alarm[facade.timer].period
           /\ facade.out.it_interval.tv_sec > 0
                  \/ facade.out.it_interval.tv_nsec >= MinInterval

\* alarm_timer_set was asked for an interval of zero and the timer has
\* since fired and been re-armed one period on
C14_Witness ==
    /\ facade.op = "timer_set"
    /\ facade.ret = "0"
    /\ facade.interval = 0
    /\ alarm[facade.timer].period = MinInterval
    /\ alarm[facade.timer].expires >= MinInterval

\* ----------------------------------------------------------------- C15
\* C15: alarm_clock_getres, alarm_clock_get, alarm_timer_create and
\* alarm_timer_nsleep called for a clockid that is neither
\* CLOCK_REALTIME_ALARM nor CLOCK_BOOTTIME_ALARM return -ENOTSUPP, and no
\* alarm is ever given a type that is not one of the two bases.
C15_InvalidClockRejected ==
    /\ (facade.op \in {"getres", "clock_get", "timer_create", "nsleep"}
           /\ facade.clock \notin {CLOCK_REALTIME_ALARM, CLOCK_BOOTTIME_ALARM})
           => facade.ret = "ENOTSUPP"
    /\ \A a \in Alarms : alarm[a].type \in TypeSet

\* ----------------------------------------------------------------- C16
\* a posix clock interface is called in this step (a call that repeats the
\* last one with the same result and changes nothing is no step at all)
FacadeCall == facade' # facade

\* C16 as stated: a posix clock interface called while there is no rtc,
\* and finding none, returns -ENOTSUPP and leaves the queues, the alarms
\* and the dispatch timers as they were.
C16_NoRtcNotSupported ==
    [][(FacadeCall /\ ~rtcdev') =>
          /\ facade'.ret = "ENOTSUPP"
          /\ UNCHANGED <<timerqueue, alarm, hrtimer>>]_vars

\* C16 amended: the same for every interface but alarm_timer_get, which
\* returns nothing and copies the alarm's expiry and period out, leaving
\* the queues, the alarms and the dispatch timers as they were.
C16_NoRtcNotSupportedButTimerGet ==
    [][(FacadeCall /\ ~rtcdev') =>
          /\ IF facade'.op = "timer_get"
             THEN /\ facade'.ret = "none"
                  /\ facade'.out.it_interval
                         = ktime_to_timespec(alarm[facade'.timer].period)
                  /\ facade'.out.it_value
                         = ktime_to_timespec(alarm[facade'.timer].expires)
             ELSE facade'.ret = "ENOTSUPP"
          /\ UNCHANGED <<timerqueue, alarm, hrtimer>>]_vars

\* alarm_timer_set has returned -ENOTSUPP with an alarm in a queue
C16_Witness ==
    /\ ~rtcdev
    /\ facade.op = "timer_set"
    /\ facade.ret = "ENOTSUPP"
    /\ timerqueue[ALARM_REALTIME] # <<>>

\* ----------------------------------------------------------------- C17
\* C17: with an rtc, alarm_timer_create and alarm_timer_nsleep called
\* without CAP_WAKE_ALARM return -EPERM, leave every alarm, queue and
\* dispatch timer as it was and do not put the caller to sleep (the task
\* is where it was); called with it they do not return -EPERM.
C17_CapabilityRequired ==
    [][(FacadeCall /\ rtcdev' /\ facade'.op \in {"timer_create", "nsleep"}) =>
          IF facade'.capable
          THEN facade'.ret # "EPERM"
          ELSE /\ facade'.ret = "EPERM"
               /\ UNCHANGED <<timerqueue, alarm, hrtimer, data>>
               /\ task'.pc = task.pc
               /\ task'.state = task.state]_vars

\* alarm_timer_nsleep has returned -EPERM to a caller without the
\* capability, for a clock that has an rtc
C17_Witness ==
    /\ rtcdev
    /\ facade.op = "nsleep"
    /\ facade.clock = CLOCK_REALTIME_ALARM
    /\ ~facade.capable
    /\ facade.ret = "EPERM"
    /\ task.pc = "idle"

\* ----------------------------------------------------------------- C18
\* alarmtimer_fired holds the lock of base b exactly while it is in its
\* loop: not while the function of an alarm runs, and again afterwards
CallbackUnlocked ==
    \A b \in TypeSet :
        /\ fired[b].pc \in {"call", "called"} => lock[b] = "free"
        /\ fired[b].pc = "loop" <=> lock[b] = "fired"

\* whoever waits for the lock of a base waits for a drain that can go on
\* to release it, and a callback can start its alarm again
NobodyBlocked ==
    \A b \in TypeSet :
        /\ lock[b] # "free" =>
               ENABLED (alarmtimer_fired_expire(b) \/ alarmtimer_fired_return(b))
        /\ fired[b].pc = "call" =>
               ENABLED alarm_start(fired[b].alarm, 0, 0)

\* a step that writes freezer_delta, under freezer_delta_lock, leaves alone
\* all that the base locks protect, and the base locks
LocksNotNested ==
    freezer_delta' # freezer_delta =>
        UNCHANGED <<lock, timerqueue, hrtimer, alarm>>

\* C18: deadlock freedom. alarmtimer_fired calls every alarm's function
\* with the base lock released and takes it again afterwards; no step
\* holds a base lock and freezer_delta_lock together; so in no reachable
\* state does a thread wait for a lock its holder cannot release, whatever
\* the interleaving of alarm_start, alarm_cancel, drains whose callbacks
\* call alarm_start and alarm_cancel on the base being drained, tasks
\* publishing a freezer delta and the suspend hook.
C18_DeadlockFree ==
    /\ [](CallbackUnlocked /\ NobodyBlocked)
    /\ [][LocksNotNested]_vars

\* a callback started its alarm again while the suspend hook was between
\* its freezer_delta section and its look at the base
C18_Witness ==
    /\ fired[ALARM_REALTIME].pc = "call"
    /\ Linked(timerqueue[ALARM_REALTIME], fired[ALARM_REALTIME].alarm)
    /\ susp.pc = "base"
    /\ freezer_delta # 0

\* ----------------------------------------------------------------- C19
\* C19: once alarmtimer_do_nsleep has returned, no alarmtimer_fired has
\* the task's on-stack alarm dequeued with its function still to call.
C19_NoUseAfterReturn ==
    task.pc \in {"out", "idle"} =>
        /\ \A b \in TypeSet :
               ~(fired[b].pc = "call" /\ fired[b].alarm \in SleepAlarms)
        /\ ~task.dangling

\* ----------------------------------------------------------------- C20
\* the task is inside alarmtimer_do_nsleep
InSleepLoop ==
    task.pc \in {"do_nsleep", "set_state", "start", "test", "schedule",
                 "cancel", "while"}

\* alarmtimer_do_nsleep has returned 'fired', or not fired with a signal
\* pending
ReturnedFired == task.pc = "out" /\ (task.slept \/ task.sig)

\* every alarm_start of the sleep loop arms the alarm for the expiry of the
\* call
RearmedForSameExpiry ==
    task.pc = "start" /\ task'.pc = "test" =>
        /\ alarm'["n1"].expires = nhist.last.exp
        /\ alarm'["n1"].enabled
        /\ Linked(timerqueue'[nhist.last.type], "n1")

\* C20: under fair scheduling a task in the sleep loop whose base clock has
\* reached the expiry eventually returns from the loop, with 'fired' unless
\* a signal is pending, wherever the wakeup callback falls between the
\* sleeper's steps; and every pass of the loop, the one after a spurious
\* wake included, arms the alarm for the same expiry.
C20_NoLostWakeup ==
    /\ (InSleepLoop /\ clock[task.type] >= task.exp) ~> ReturnedFired
    /\ [][RearmedForSameExpiry]_vars

\* the loop returned 'fired' after a spurious wake and a second pass
C20_Witness ==
    /\ task.pc = "out"
    /\ task.slept
    /\ ~task.sig
    /\ nhist.wakes > 0
    /\ nhist.cb
    /\ clock[task.type] >= task.exp

\* ----------------------------------------------------------------- C21
\* alarmtimer_fired on base b returns
DrainReturns(b) == fired[b].pc = "loop" /\ fired'[b].pc = "idle"

\* an invocation that has read the base time returns, unless an alarm is
\* queued meanwhile with an expiry <= that time
DrainTerminates ==
    \A b \in TypeSet :
        DrainActive(b) ~> (~DrainActive(b) \/ thist[b].late)

\* every pass of the loop takes the head out of the queue or puts it back
\* with a later expiry, and the base time is not read again
LoopMakesProgress ==
    \A b \in TypeSet :
        fired[b].pc = "loop" /\ fired'[b].pc = "call" =>
            /\ fired'[b].now = fired[b].now
            /\ \/ ~Linked(timerqueue'[b], fired'[b].alarm)
               \/ alarm'[fired'[b].alarm].expires > fired'[b].expired

\* at the return no alarm is left in the queue with an expiry <= now
NothingExpiredLeft(b) ==
    \A a \in Alarms :
        Linked(timerqueue[b], a) => alarm[a].expires > fired[b].now

\* C21 as stated: an invocation of alarmtimer_fired reads the base time
\* once and, periods being > 0 and no alarm being queued meanwhile with an
\* expiry <= that time, returns after finitely many calls, having called
\* once the function of every one-shot alarm that was queued with an expiry
\* <= that time, and leaving only alarms with a later expiry in the queue.
C21_DrainFiresEveryDueOneShot ==
    /\ DrainTerminates
    /\ [][LoopMakesProgress]_vars
    /\ [][\A b \in TypeSet :
             DrainReturns(b) /\ ~thist[b].late =>
                 /\ \A a \in thist[b].due :
                        a \in thist[b].called \ thist[b].again
                 /\ NothingExpiredLeft(b)]_vars

\* C21 amended: the same, for the one-shot alarms that no alarm_start or
\* alarm_cancel found before the invocation had dequeued them; none of the
\* one-shot alarms is called more than once.
C21_DrainFiresEveryDueOneShotLeftAlone ==
    /\ DrainTerminates
    /\ [][LoopMakesProgress]_vars
    /\ [][\A b \in TypeSet :
             DrainReturns(b) /\ ~thist[b].late =>
                 /\ \A a \in thist[b].due \ thist[b].skipped :
                        a \in thist[b].called
                 /\ \A a \in thist[b].due : a \notin thist[b].again
                 /\ NothingExpiredLeft(b)]_vars

\* a drain about to return that has called a one-shot alarm once and a
\* periodic alarm more than once, nothing having been queued meanwhile
C21_Witness ==
    \E b \in TypeSet :
        /\ fired[b].pc = "loop"
        /\ ~Expired(b)
        /\ ~thist[b].late
        /\ thist[b].due # {}
        /\ thist[b].due \subseteq thist[b].called
        /\ thist[b].again # {}

====
